---- MODULE Spec2Model ----
(***************************************************************************)
(* Beam analysis engine of BeamCee (src/utils/beamCalculations.ts):        *)
(* unit conversion, support reactions, deflection and slope evaluators     *)
(* and the result summary of performCalculations.                          *)
(*                                                                         *)
(* Numbers.  The engine computes with JavaScript numbers.  Here a number   *)
(* is an exact decimal-scaled rational <<n, d, e>> standing for            *)
(* (n / d) * 10^e with d > 0, so that the factors 1e6, 1e-12 and 1000 of   *)
(* the unit conversion are representable; rounding error of IEEE doubles   *)
(* is not modelled.  Two representations of the same value may differ, so  *)
(* values are compared with REq, never with =.                             *)
(***************************************************************************)
EXTENDS Integers, Sequences, FiniteSets, TLC

----------------------------------------------------------------------------
(* Exact arithmetic *)

Abs(i) == IF i < 0 THEN -i ELSE i

RECURSIVE GCD(_, _)
GCD(a, b) == IF b = 0 THEN a ELSE GCD(b, a % b)

RECURSIVE Pow10(_)
Pow10(k) == IF k <= 0 THEN 1 ELSE 10 * Pow10(k - 1)

\* move factors of ten of the numerator into the exponent
RECURSIVE StripNum(_, _, _)
StripNum(n, d, e) ==
  IF n # 0 /\ n % 10 = 0 THEN StripNum(n \div 10, d, e + 1) ELSE <<n, d, e>>

\* move factors of ten of the denominator into the exponent
RECURSIVE StripDen(_, _, _)
StripDen(n, d, e) ==
  IF d % 10 = 0 THEN StripDen(n, d \div 10, e - 1) ELSE StripNum(n, d, e)

RNorm(n, d, e) ==
  IF n = 0 THEN <<0, 1, 0>>
  ELSE LET g == GCD(Abs(n), d) IN StripDen(n \div g, d \div g, e)

R(i) == RNorm(i, 1, 0)
Zero == <<0, 1, 0>>

\* The operations are functions on numbers, so that an operand is evaluated
\* once, however often the operation uses it.
Num == Int \X Int \X Int

\* The values of IEEE arithmetic that are not finite have denominator 0:
\* +Infinity, -Infinity and NaN
PosInfinity == <<1, 0, 0>>
NegInfinity == <<-1, 0, 0>>
NaN == <<0, 0, 0>>
Finite(a) == a[2] # 0
Sign(i) == IF i > 0 THEN 1 ELSE IF i < 0 THEN -1 ELSE 0

RNegF[a \in Num] == <<-a[1], a[2], a[3]>>

RAbsF[a \in Num] == <<Abs(a[1]), a[2], a[3]>>

RAddF[p \in Num \X Num] ==
  LET a == p[1]
      b == p[2]
  IN  IF ~Finite(a) \/ ~Finite(b)
      THEN IF Finite(a) THEN b
           ELSE IF Finite(b) THEN a
           ELSE IF a[1] = b[1] THEN a ELSE NaN
      ELSE IF a[1] = 0 THEN b
      ELSE IF b[1] = 0 THEN a
      ELSE LET e  == IF a[3] < b[3] THEN a[3] ELSE b[3]
               na == a[1] * Pow10(a[3] - e)
               nb == b[1] * Pow10(b[3] - e)
               g  == GCD(a[2], b[2])
           IN  RNorm(na * (b[2] \div g) + nb * (a[2] \div g),
                     (a[2] \div g) * b[2], e)

RMulF[p \in Num \X Num] ==
  LET a == p[1]
      b == p[2]
  IN  IF ~Finite(a) \/ ~Finite(b) THEN <<Sign(a[1]) * Sign(b[1]), 0, 0>>
      ELSE IF a[1] = 0 \/ b[1] = 0 THEN Zero
      ELSE LET g1 == GCD(Abs(a[1]), b[2])
               g2 == GCD(Abs(b[1]), a[2])
           IN  RNorm((a[1] \div g1) * (b[1] \div g2),
                     (a[2] \div g2) * (b[2] \div g1), a[3] + b[3])

\* 1 / b: 1 / 0 is Infinity and 1 / Infinity is 0, so that a / 0 is an
\* infinity for a # 0 and NaN for a = 0
RInvF[b \in Num] ==
  IF ~Finite(b) THEN (IF b[1] = 0 THEN NaN ELSE Zero)
  ELSE IF b[1] = 0 THEN PosInfinity
  ELSE IF b[1] < 0 THEN <<-b[2], -b[1], -b[3]>> ELSE <<b[2], b[1], -b[3]>>

RNeg(a) == RNegF[a]
RAbs(a) == RAbsF[a]
RAdd(a, b) == RAddF[<<a, b>>]
RSub(a, b) == RAddF[<<a, RNegF[b]>>]
RMul(a, b) == RMulF[<<a, b>>]
RDiv(a, b) == RMulF[<<a, RInvF[b]>>]

\* Comparison of two numbers: -1, 0 or 1 for less, equal and greater, and 2
\* if one of them is NaN (every comparison with NaN is false).  The
\* numerator of a - b carries its sign.
SignOfF[d \in Num] == IF Finite(d) THEN Sign(d[1]) ELSE 2
RCmpF[p \in Num \X Num] ==
  IF p[1] = NaN \/ p[2] = NaN THEN 2
  ELSE IF ~Finite(p[1]) \/ ~Finite(p[2])
  THEN Sign((IF Finite(p[1]) THEN 0 ELSE p[1][1])
            - (IF Finite(p[2]) THEN 0 ELSE p[2][1]))
  ELSE SignOfF[RAddF[<<p[1], RNegF[p[2]]>>]]
REq(a, b) == RCmpF[<<a, b>>] = 0
RLt(a, b) == RCmpF[<<a, b>>] = -1
RLe(a, b) == RCmpF[<<a, b>>] \in {-1, 0}
RGt(a, b) == RCmpF[<<a, b>>] = 1
RGe(a, b) == RCmpF[<<a, b>>] \in {0, 1}

\* Math.max and Math.min: NaN if an argument is NaN
RMaxF[p \in Num \X Num] ==
  IF p[1] = NaN \/ p[2] = NaN THEN NaN
  ELSE IF RCmpF[p] = -1 THEN p[2] ELSE p[1]
RMinF[p \in Num \X Num] ==
  IF p[1] = NaN \/ p[2] = NaN THEN NaN
  ELSE IF RCmpF[p] = 1 THEN p[2] ELSE p[1]
RMax(a, b) == RMaxF[<<a, b>>]
RMin(a, b) == RMinF[<<a, b>>]

\* left-to-right product of a sequence of numbers
RECURSIVE ProdFrom(_, _, _)
ProdFrom(s, i, acc) ==
  IF i > Len(s) THEN acc ELSE ProdFrom(s, i + 1, RMul(acc, s[i]))
ProdF[s \in Seq(Num)] == ProdFrom(s, 2, s[1])
Prod(s) == ProdF[s]

----------------------------------------------------------------------------
(* Data model (src/types/beam.ts) *)

\* an optional field that is absent
Undefined == <<>>

\* JavaScript `v || dflt` on an optional number: undefined and 0 are falsy
OrElse(v, dflt) == IF v = Undefined \/ v[1] = 0 THEN dflt ELSE v

PointLoad(id, mag, pos) ==
  [id |-> id, type |-> "point-load", magnitude |-> mag, position |-> pos,
   startPosition |-> Undefined, endPosition |-> Undefined]

UniformLoad(id, mag, s, e) ==
  [id |-> id, type |-> "uniform-load", magnitude |-> mag,
   position |-> Undefined, startPosition |-> s, endPosition |-> e]

TriangularLoad(id, mag, s, e) ==
  [id |-> id, type |-> "triangular-load", magnitude |-> mag,
   position |-> Undefined, startPosition |-> s, endPosition |-> e]

BeamTypes == {"simply-supported", "cantilever", "fixed"}

----------------------------------------------------------------------------
(* Unit normalizer *)

\* mutant: mm^4 converted with a factor that is 0, so that E * I = 0
convertToCalculationUnits_ZeroInertia(p) ==
  [p EXCEPT !.elasticModulus  = RMul(p.elasticModulus, <<1, 1, 6>>),
            !.momentOfInertia = RMul(p.momentOfInertia, Zero),
            !.loads = [i \in 1..Len(p.loads) |->
                         [p.loads[i] EXCEPT !.magnitude =
                            RMul(p.loads[i].magnitude, R(1000))]]]

\* mutant: MPa converted with the factor 1e3 instead of 1e6
convertToCalculationUnits_WrongModulusFactor(p) ==
  [p EXCEPT !.elasticModulus  = RMul(p.elasticModulus, <<1, 1, 3>>),
            !.momentOfInertia = RMul(p.momentOfInertia, <<1, 1, -12>>),
            !.loads = [i \in 1..Len(p.loads) |->
                         [p.loads[i] EXCEPT !.magnitude =
                            RMul(p.loads[i].magnitude, R(1000))]]]

convertToCalculationUnits(p) ==
  [p EXCEPT !.elasticModulus  = RMul(p.elasticModulus, <<1, 1, 6>>),
            !.momentOfInertia = RMul(p.momentOfInertia, <<1, 1, -12>>),
            !.loads = [i \in 1..Len(p.loads) |->
                         [p.loads[i] EXCEPT !.magnitude =
                            RMul(p.loads[i].magnitude, R(1000))]]]

----------------------------------------------------------------------------
(* Reaction solver *)

leftSupportOf(p) ==
  IF p.leftSupportPosition # Undefined THEN p.leftSupportPosition ELSE Zero

rightSupportOf(p, length) ==
  IF p.rightSupportPosition # Undefined THEN p.rightSupportPosition ELSE length

NoReaction == [R1 |-> Zero, R2 |-> Zero, M1 |-> Undefined, M2 |-> Undefined]

\* mutant: R1 takes the whole load instead of load minus R2
ReactionsSimplySupportedPoint_WholeLoadOnR1(load, leftSupport, rightSupport) ==
  LET span        == RSub(rightSupport, leftSupport)
      relativePos == RSub(load.position, leftSupport)
  IN  IF RLt(load.position, leftSupport) \/ RGt(load.position, rightSupport)
      THEN NoReaction
      ELSE LET R2 == RDiv(RMul(load.magnitude, relativePos), span)
               R1 == load.magnitude
           IN  [NoReaction EXCEPT !.R1 = R1, !.R2 = R2]

\* mutant: a load exactly at a support counts as outside the span
ReactionsSimplySupportedPoint_SupportExcluded(load, leftSupport, rightSupport) ==
  LET span        == RSub(rightSupport, leftSupport)
      relativePos == RSub(load.position, leftSupport)
  IN  IF RLe(load.position, leftSupport) \/ RGe(load.position, rightSupport)
      THEN NoReaction
      ELSE LET R2 == RDiv(RMul(load.magnitude, relativePos), span)
               R1 == RSub(load.magnitude, R2)
           IN  [NoReaction EXCEPT !.R1 = R1, !.R2 = R2]

\* point load on a simply-supported beam; load is in calculation units
ReactionsSimplySupportedPoint(load, leftSupport, rightSupport) ==
  LET span        == RSub(rightSupport, leftSupport)
      relativePos == RSub(load.position, leftSupport)
  IN  IF RLt(load.position, leftSupport) \/ RGt(load.position, rightSupport)
      THEN NoReaction
      ELSE LET R2 == RDiv(RMul(load.magnitude, relativePos), span)
               R1 == RSub(load.magnitude, R2)
           IN  [NoReaction EXCEPT !.R1 = R1, !.R2 = R2]

\* simply-supported branch
ReactionsSimplySupported(load, length, leftSupport, rightSupport) ==
  LET span == RSub(rightSupport, leftSupport) IN
  IF load.type = "point-load" /\ load.position # Undefined THEN
    ReactionsSimplySupportedPoint(load, leftSupport, rightSupport)
  ELSE IF load.type = "uniform-load" THEN
    LET startPos     == OrElse(load.startPosition, Zero)
        endPos       == OrElse(load.endPosition, length)
        overlapStart == RMax(startPos, leftSupport)
        overlapEnd   == RMin(endPos, rightSupport)
    IN  IF RGe(overlapStart, overlapEnd) THEN NoReaction
        ELSE LET loadLength == RSub(overlapEnd, overlapStart)
                 totalLoad  == RMul(load.magnitude, loadLength)
                 loadCenter == RSub(RDiv(RAdd(overlapStart, overlapEnd), R(2)),
                                    leftSupport)
                 R2 == RDiv(RMul(totalLoad, loadCenter), span)
                 R1 == RSub(totalLoad, R2)
             IN  [NoReaction EXCEPT !.R1 = R1, !.R2 = R2]
  ELSE IF load.type = "triangular-load" THEN
    LET startPos     == OrElse(load.startPosition, Zero)
        endPos       == OrElse(load.endPosition, length)
        overlapStart == RMax(startPos, leftSupport)
        overlapEnd   == RMin(endPos, rightSupport)
    IN  IF RGe(overlapStart, overlapEnd) THEN NoReaction
        ELSE LET loadWidth      == RSub(endPos, startPos)
                 totalLoad      == RDiv(RMul(load.magnitude, loadWidth), R(2))
                 loadCenter     == RSub(endPos, RDiv(loadWidth, R(3)))
                 adjustedCenter == RSub(loadCenter, leftSupport)
                 R2 == RDiv(RMul(totalLoad, adjustedCenter), span)
                 R1 == RSub(totalLoad, R2)
             IN  [NoReaction EXCEPT !.R1 = R1, !.R2 = R2]
  ELSE NoReaction

\* point load on a cantilever
ReactionsCantileverPoint(load) ==
  [NoReaction EXCEPT !.R1 = load.magnitude,
                     !.M1 = RMul(load.magnitude, load.position)]

\* cantilever branch
ReactionsCantilever(load, length, leftSupport) ==
  IF load.type = "point-load" /\ load.position # Undefined THEN
    ReactionsCantileverPoint(load)
  ELSE IF load.type = "uniform-load" THEN
    LET startPos   == OrElse(load.startPosition, Zero)
        endPos     == OrElse(load.endPosition, length)
        loadLength == RSub(endPos, startPos)
        totalLoad  == RMul(load.magnitude, loadLength)
        loadCenter == RDiv(RAdd(startPos, endPos), R(2))
    IN  [NoReaction EXCEPT !.R1 = totalLoad, !.M1 = RMul(totalLoad, loadCenter)]
  ELSE IF load.type = "triangular-load" THEN
    LET startPos   == OrElse(load.startPosition, Zero)
        endPos     == OrElse(load.endPosition, length)
        loadWidth  == RSub(endPos, startPos)
        totalLoad  == RDiv(RMul(load.magnitude, loadWidth), R(2))
        loadCenter == RSub(endPos, RDiv(loadWidth, R(3)))
        lever      == RSub(loadCenter, leftSupport)
    IN  [NoReaction EXCEPT !.R1 = totalLoad, !.M1 = RMul(totalLoad, lever)]
  ELSE NoReaction

\* fixed-fixed branch
ReactionsFixed(load, length, leftSupport, rightSupport) ==
  LET span == RSub(rightSupport, leftSupport) IN
  IF load.type = "point-load" /\ load.position # Undefined THEN
    LET a == load.position
        L == length
        F == load.magnitude
    IN  [R1 |-> RMul(F, RSub(R(1), RDiv(a, L))),
         R2 |-> RMul(F, RDiv(a, L)),
         M1 |-> RDiv(Prod(<<RNeg(F), a, RSub(L, a), RSub(L, a)>>), RMul(L, L)),
         M2 |-> RDiv(Prod(<<F, a, a, RSub(L, a)>>), RMul(L, L))]
  ELSE IF load.type = "uniform-load" THEN
    LET startPos == OrElse(load.startPosition, Zero)
        endPos   == OrElse(load.endPosition, length)
        w        == load.magnitude
        L        == length
    IN  IF RGe(RSub(endPos, startPos), length) THEN
          [R1 |-> RDiv(RMul(w, L), R(2)),
           R2 |-> RDiv(RMul(w, L), R(2)),
           M1 |-> RDiv(Prod(<<RNeg(w), L, L>>), R(12)),
           M2 |-> RDiv(Prod(<<w, L, L>>), R(12))]
        ELSE
          LET loadLength == RSub(endPos, startPos)
              totalLoad  == RMul(w, loadLength)
              loadCenter == RDiv(RAdd(startPos, endPos), R(2))
              a          == loadCenter
              b          == RDiv(loadLength, R(2))
          IN  [R1 |-> RMul(totalLoad, RSub(R(1), RDiv(loadCenter, L))),
               R2 |-> RMul(totalLoad, RDiv(loadCenter, L)),
               M1 |-> RDiv(Prod(<<RNeg(w), b, RSub(L, a), RSub(L, a),
                                  RAdd(L, RMul(R(2), a))>>), RMul(R(12), L)),
               M2 |-> RDiv(Prod(<<w, b, a, a,
                                  RSub(RMul(R(3), L), RMul(R(2), a))>>),
                           RMul(R(12), L))]
  ELSE IF load.type = "triangular-load" THEN
    LET startPos       == OrElse(load.startPosition, Zero)
        endPos         == OrElse(load.endPosition, length)
        loadWidth      == RSub(endPos, startPos)
        totalLoad      == RDiv(RMul(load.magnitude, loadWidth), R(2))
        loadCenter     == RSub(endPos, RDiv(loadWidth, R(3)))
        adjustedCenter == RSub(loadCenter, leftSupport)
        a              == adjustedCenter
        L              == span
    IN  [R1 |-> RMul(totalLoad, RSub(R(1), RDiv(adjustedCenter, span))),
         R2 |-> RMul(totalLoad, RDiv(adjustedCenter, span)),
         M1 |-> RDiv(Prod(<<RNeg(totalLoad), a, RSub(L, a), RSub(L, a)>>),
                     RMul(L, L)),
         M2 |-> RDiv(Prod(<<totalLoad, a, a, RSub(L, a)>>), RMul(L, L))]
  ELSE NoReaction

\* loadIndex counts from 1 here (from 0 in the source)
calculateReactions(params, loadIndex) ==
  LET calculationParams == convertToCalculationUnits(params)
      length       == calculationParams.length
      beamType     == calculationParams.beamType
      load         == calculationParams.loads[loadIndex]
      leftSupport  == leftSupportOf(params)
      rightSupport == rightSupportOf(params, length)
  IN  IF beamType = "simply-supported"
        THEN ReactionsSimplySupported(load, length, leftSupport, rightSupport)
      ELSE IF beamType = "cantilever"
        THEN ReactionsCantilever(load, length, leftSupport)
      ELSE IF beamType = "fixed"
        THEN ReactionsFixed(load, length, leftSupport, rightSupport)
      ELSE NoReaction

\* `reactions.M1 || 0`: undefined, 0 and NaN are falsy
MomentOrZero(m) == IF m = Undefined \/ m[1] = 0 THEN Zero ELSE m

\* the reactions of one load, as calculateReactions returns them
Reactions ==
  [R1 : Num, R2 : Num, M1 : Num \cup {Undefined}, M2 : Num \cup {Undefined}]

\* the body of the loop: the reactions of one load added to the totals
AddReactions(totalReactions) ==
  [reactions \in Reactions |->
     [R1 |-> RAdd(totalReactions.R1, reactions.R1),
      R2 |-> RAdd(totalReactions.R2, reactions.R2),
      M1 |-> RAdd(MomentOrZero(totalReactions.M1),
                  MomentOrZero(reactions.M1)),
      M2 |-> RAdd(MomentOrZero(totalReactions.M2),
                  MomentOrZero(reactions.M2))]]

RECURSIVE TotalReactionsFrom(_, _, _)
TotalReactionsFrom(params, index, totalReactions) ==
  IF index > Len(params.loads) THEN totalReactions
  ELSE TotalReactionsFrom(params, index + 1,
         AddReactions(totalReactions)[calculateReactions(params, index)])

calculateTotalReactions(params) ==
  TotalReactionsFrom(params, 1,
                     [R1 |-> Zero, R2 |-> Zero, M1 |-> Zero, M2 |-> Zero])

----------------------------------------------------------------------------
(* Internal force evaluator: bending moment and shear force at x.  The      *)
(* reactions are taken from calculateTotalReactions called with the          *)
(* parameters that are already in calculation units.                        *)

\* what a load takes from the moment at x on a simply-supported or a fixed
\* beam, once x has passed the start of the load
BendingMomentLoadBehind(load, x, length) ==
  IF load.type = "point-load" /\ load.position # Undefined THEN
    IF RGt(x, load.position)
    THEN RMul(load.magnitude, RSub(x, load.position))
    ELSE Zero
  ELSE IF load.type = "uniform-load" THEN
    LET startPos == OrElse(load.startPosition, Zero)
        endPos   == OrElse(load.endPosition, length)
        w        == load.magnitude
    IN  IF RGe(x, startPos) THEN
          IF RLe(x, endPos)
          THEN LET loadLength == RSub(x, startPos) IN
               RDiv(Prod(<<w, loadLength, loadLength>>), R(2))
          ELSE LET loadLength == RSub(endPos, startPos)
                   loadCenter == RAdd(startPos, RDiv(loadLength, R(2)))
               IN  Prod(<<w, loadLength, RSub(x, loadCenter)>>)
        ELSE Zero
  ELSE IF load.type = "triangular-load" THEN
    LET startPos  == OrElse(load.startPosition, Zero)
        endPos    == OrElse(load.endPosition, length)
        w         == load.magnitude
        loadWidth == RSub(endPos, startPos)
    IN  IF RGe(x, startPos) THEN
          IF RLe(x, endPos)
          THEN LET x1            == RSub(x, startPos)
                   partialHeight == RDiv(RMul(w, x1), loadWidth)
               IN  RDiv(Prod(<<partialHeight, x1, x1>>), R(6))
          ELSE LET totalLoad  == RDiv(RMul(w, loadWidth), R(2))
                   loadCenter == RSub(endPos, RDiv(loadWidth, R(3)))
               IN  RMul(totalLoad, RSub(x, loadCenter))
        ELSE Zero
  ELSE Zero

\* what a load adds to the moment at x on a cantilever: the part of the load
\* to the right of x
BendingMomentLoadAhead(load, x, length) ==
  IF load.type = "point-load" /\ load.position # Undefined THEN
    IF RLe(x, load.position)
    THEN RMul(load.magnitude, RSub(load.position, x))
    ELSE Zero
  ELSE IF load.type = "uniform-load" THEN
    LET startPos == OrElse(load.startPosition, Zero)
        endPos   == OrElse(load.endPosition, length)
        w        == load.magnitude
    IN  IF RLe(x, endPos) THEN
          IF RLe(x, startPos)
          THEN LET loadLength == RSub(endPos, startPos)
                   loadCenter == RAdd(startPos, RDiv(loadLength, R(2)))
               IN  Prod(<<w, loadLength, RSub(loadCenter, x)>>)
          ELSE LET loadLength == RSub(endPos, x) IN
               RDiv(Prod(<<w, loadLength, loadLength>>), R(2))
        ELSE Zero
  ELSE IF load.type = "triangular-load" THEN
    LET startPos  == OrElse(load.startPosition, Zero)
        endPos    == OrElse(load.endPosition, length)
        w         == load.magnitude
        loadWidth == RSub(endPos, startPos)
    IN  IF RLe(x, endPos) THEN
          IF RLe(x, startPos)
          THEN LET totalLoad  == RDiv(RMul(w, loadWidth), R(2))
                   loadCenter == RSub(endPos, RDiv(loadWidth, R(3)))
               IN  RMul(totalLoad, RSub(loadCenter, x))
          ELSE LET remainingWidth  == RSub(endPos, x)
                   remainingHeight == RDiv(RMul(w, remainingWidth), loadWidth)
               IN  RDiv(Prod(<<remainingHeight, remainingWidth, remainingWidth>>),
                        R(6))
        ELSE Zero
  ELSE Zero

RECURSIVE BendingMomentFrom(_, _, _, _, _)
BendingMomentFrom(cp, length, x, i, totalMoment) ==
  IF i > Len(cp.loads) THEN totalMoment
  ELSE BendingMomentFrom(cp, length, x, i + 1,
         IF cp.beamType = "cantilever"
         THEN RAdd(totalMoment, BendingMomentLoadAhead(cp.loads[i], x, length))
         ELSE RSub(totalMoment, BendingMomentLoadBehind(cp.loads[i], x, length)))

\* the moment at x of the reactions of a simply-supported or a fixed beam
ReactionMoment(beamType, x) ==
  [reactions \in [R1 : Num, R2 : Num, M1 : Num, M2 : Num] |->
     IF beamType = "fixed"
     THEN RAdd(RNeg(reactions.M1), RMul(reactions.R1, x))
     ELSE RMul(reactions.R1, x)]

calculateBendingMoment(params, x) ==
  LET calculationParams == convertToCalculationUnits(params) IN
  IF calculationParams.beamType \in {"simply-supported", "fixed"} THEN
    BendingMomentFrom(calculationParams, params.length, x, 1,
      ReactionMoment(calculationParams.beamType, x)[
        calculateTotalReactions(calculationParams)])
  ELSE IF calculationParams.beamType = "cantilever" THEN
    BendingMomentFrom(calculationParams, params.length, x, 1, Zero)
  ELSE Zero

\* what a load takes from the shear at x on a simply-supported or a fixed
\* beam
ShearForceLoadBehind(load, x, length) ==
  IF load.type = "point-load" /\ load.position # Undefined THEN
    IF RGt(x, load.position) THEN load.magnitude ELSE Zero
  ELSE IF load.type = "uniform-load" THEN
    LET startPos == OrElse(load.startPosition, Zero)
        endPos   == OrElse(load.endPosition, length)
        w        == load.magnitude
    IN  IF RGt(x, startPos) THEN
          IF RLe(x, endPos) THEN RMul(w, RSub(x, startPos))
          ELSE RMul(w, RSub(endPos, startPos))
        ELSE Zero
  ELSE IF load.type = "triangular-load" THEN
    LET startPos  == OrElse(load.startPosition, Zero)
        endPos    == OrElse(load.endPosition, length)
        w         == load.magnitude
        loadWidth == RSub(endPos, startPos)
    IN  IF RGt(x, startPos) THEN
          IF RLe(x, endPos)
          THEN LET x1            == RSub(x, startPos)
                   partialHeight == RDiv(RMul(w, x1), loadWidth)
               IN  RDiv(RMul(partialHeight, x1), R(2))
          ELSE RDiv(RMul(w, loadWidth), R(2))
        ELSE Zero
  ELSE Zero

\* what a load adds to the shear at x on a cantilever
ShearForceLoadAhead(load, x, length) ==
  IF load.type = "point-load" /\ load.position # Undefined THEN
    IF RLe(x, load.position) THEN load.magnitude ELSE Zero
  ELSE IF load.type = "uniform-load" THEN
    LET startPos == OrElse(load.startPosition, Zero)
        endPos   == OrElse(load.endPosition, length)
        w        == load.magnitude
    IN  IF RLt(x, endPos) THEN
          IF RLe(x, startPos) THEN RMul(w, RSub(endPos, startPos))
          ELSE RMul(w, RSub(endPos, x))
        ELSE Zero
  ELSE IF load.type = "triangular-load" THEN
    LET startPos  == OrElse(load.startPosition, Zero)
        endPos    == OrElse(load.endPosition, length)
        w         == load.magnitude
        loadWidth == RSub(endPos, startPos)
    IN  IF RLt(x, endPos) THEN
          IF RLe(x, startPos) THEN RDiv(RMul(w, loadWidth), R(2))
          ELSE LET remainingWidth == RSub(endPos, x)
                   partialHeight  == RDiv(RMul(w, remainingWidth), loadWidth)
               IN  RDiv(RMul(partialHeight, remainingWidth), R(2))
        ELSE Zero
  ELSE Zero

RECURSIVE ShearForceFrom(_, _, _, _)
ShearForceFrom(cp, x, i, totalShear) ==
  IF i > Len(cp.loads) THEN totalShear
  ELSE ShearForceFrom(cp, x, i + 1,
         IF cp.beamType = "cantilever"
         THEN RAdd(totalShear, ShearForceLoadAhead(cp.loads[i], x, cp.length))
         ELSE RSub(totalShear, ShearForceLoadBehind(cp.loads[i], x, cp.length)))

calculateShearForce(params, x) ==
  LET calculationParams == convertToCalculationUnits(params) IN
  IF calculationParams.beamType \in {"simply-supported", "fixed"} THEN
    ShearForceFrom(calculationParams, x, 1,
                   calculateTotalReactions(calculationParams).R1)
  ELSE IF calculationParams.beamType = "cantilever" THEN
    ShearForceFrom(calculationParams, x, 1, Zero)
  ELSE Zero

----------------------------------------------------------------------------
(* Deflection evaluator: contribution of one load (calculation units) to    *)
(* the deflection at `position`, for each beam type.                        *)

Sq(a) == ProdF[<<a, a>>]
Cube(a) == ProdF[<<a, a, a>>]

\* the branch for x > a of a point load on a simply-supported beam
DeflectionSimplySupportedPointBeyond(load, position, L, EI) ==
  LET a == load.position IN
  RDiv(Prod(<<load.magnitude, position, RSub(L, position),
              RSub(RAdd(L, position), RMul(R(2), a))>>),
       Prod(<<R(6), EI, L>>))

DeflectionSimplySupportedPoint(load, position, L, EI) ==
  LET a == load.position IN
  IF RLe(position, a)
  THEN RDiv(Prod(<<load.magnitude, a, position,
                   RSub(RSub(Sq(L), Sq(a)), Sq(position))>>),
            Prod(<<R(6), EI, L>>))
  ELSE DeflectionSimplySupportedPointBeyond(load, position, L, EI)

DeflectionSimplySupported(load, position, length, EI) ==
  LET L == length IN
  IF load.type = "point-load" /\ load.position # Undefined THEN
    DeflectionSimplySupportedPoint(load, position, L, EI)
  ELSE IF load.type = "uniform-load" THEN
    LET startPos == OrElse(load.startPosition, Zero)
        endPos   == OrElse(load.endPosition, length)
        w        == load.magnitude
    IN  IF RGe(RSub(endPos, startPos), length)
        THEN RDiv(Prod(<<w, position,
                         RAdd(RSub(Cube(L), Prod(<<R(2), L, position, position>>)),
                              Cube(position))>>),
                  Prod(<<R(24), EI, L>>))
        ELSE LET loadLength == RSub(endPos, startPos)
                 loadCenter == RAdd(startPos, RDiv(loadLength, R(2)))
                 equivalentPointLoad == RMul(w, loadLength)
             IN  IF RLe(position, loadCenter)
                 THEN RDiv(Prod(<<equivalentPointLoad, loadCenter, position,
                                  RSub(RSub(Sq(L), Sq(loadCenter)), Sq(position))>>),
                           Prod(<<R(6), EI, L>>))
                 ELSE RDiv(Prod(<<equivalentPointLoad, position, RSub(L, position),
                                  RSub(RAdd(L, position), RMul(R(2), loadCenter))>>),
                           Prod(<<R(6), EI, L>>))
  ELSE IF load.type = "triangular-load" THEN
    LET startPos  == OrElse(load.startPosition, Zero)
        endPos    == OrElse(load.endPosition, length)
        w         == load.magnitude
        a         == startPos
        b         == endPos
        loadWidth == RSub(b, a)
        totalLoad  == RDiv(RMul(w, loadWidth), R(2))
        loadCenter == RSub(b, RDiv(loadWidth, R(3)))
    IN  IF RLe(position, a)
        THEN RDiv(Prod(<<totalLoad, position,
                         RSub(RSub(Sq(L), Sq(position)), Sq(loadCenter))>>),
                  Prod(<<R(6), EI, L>>))
        ELSE IF RLe(position, b)
        THEN LET x1 == RSub(position, a) IN
             RSub(RDiv(Prod(<<w, position, RSub(L, position), RAdd(L, position),
                              loadWidth>>),
                       Prod(<<R(60), EI, L>>)),
                  RDiv(Prod(<<w, x1, x1, x1,
                              RAdd(RSub(RMul(R(10), L), RMul(R(15), position)),
                                   RMul(R(6), x1))>>),
                       Prod(<<R(120), EI, L, loadWidth>>)))
        ELSE RDiv(Prod(<<totalLoad, position, RSub(L, position),
                         RSub(RAdd(L, position), RMul(R(2), loadCenter))>>),
                  Prod(<<R(6), EI, L>>))
  ELSE Zero

\* the branch for x > a of a point load on a cantilever
DeflectionCantileverPointBeyond(load, position, EI) ==
  LET a == load.position IN
  RDiv(Prod(<<load.magnitude, a, a, RSub(RMul(R(3), position), a)>>),
       RMul(R(6), EI))

\* mutant: one factor `position` missing in the x <= a formula
DeflectionCantileverPoint_DroppedFactor(load, position, EI) ==
  LET a == load.position IN
  IF RLe(position, a)
  THEN RDiv(Prod(<<load.magnitude, position, RSub(RMul(R(3), a), position)>>),
            RMul(R(6), EI))
  ELSE RDiv(Prod(<<load.magnitude, a, a, RSub(RMul(R(3), position), a)>>),
            RMul(R(6), EI))

\* mutant: the two branches taken the wrong way round
DeflectionCantileverPoint_SwappedBranches(load, position, EI) ==
  LET a == load.position IN
  IF RGt(position, a)
  THEN RDiv(Prod(<<load.magnitude, position, position,
                   RSub(RMul(R(3), a), position)>>),
            RMul(R(6), EI))
  ELSE RDiv(Prod(<<load.magnitude, a, a, RSub(RMul(R(3), position), a)>>),
            RMul(R(6), EI))

DeflectionCantileverPoint(load, position, EI) ==
  LET a == load.position IN
  IF RLe(position, a)
  THEN RDiv(Prod(<<load.magnitude, position, position,
                   RSub(RMul(R(3), a), position)>>),
            RMul(R(6), EI))
  ELSE DeflectionCantileverPointBeyond(load, position, EI)

DeflectionCantilever(load, position, length, EI) ==
  IF load.type = "point-load" /\ load.position # Undefined THEN
    DeflectionCantileverPoint(load, position, EI)
  ELSE IF load.type = "uniform-load" THEN
    LET startPos == OrElse(load.startPosition, Zero)
        endPos   == OrElse(load.endPosition, length)
        w        == load.magnitude
    IN  IF RGe(RSub(endPos, startPos), length)
        THEN RDiv(Prod(<<w, position, position,
                         RAdd(RSub(Prod(<<R(6), length, length>>),
                                   Prod(<<R(4), length, position>>)),
                              Sq(position))>>),
                  RMul(R(24), EI))
        ELSE LET loadLength == RSub(endPos, startPos)
                 loadCenter == RAdd(startPos, RDiv(loadLength, R(2)))
                 equivalentPointLoad == RMul(w, loadLength)
             IN  IF RLe(position, loadCenter)
                 THEN RDiv(Prod(<<equivalentPointLoad, position, position,
                                  RSub(RMul(R(3), loadCenter), position)>>),
                           RMul(R(6), EI))
                 ELSE RDiv(Prod(<<equivalentPointLoad, loadCenter, loadCenter,
                                  RSub(RMul(R(3), position), loadCenter)>>),
                           RMul(R(6), EI))
  ELSE IF load.type = "triangular-load" THEN
    LET startPos  == OrElse(load.startPosition, Zero)
        endPos    == OrElse(load.endPosition, length)
        w         == load.magnitude
        a         == startPos
        b         == endPos
        loadWidth == RSub(b, a)
    IN  IF RLe(position, a)
        THEN LET totalLoad  == RDiv(RMul(w, loadWidth), R(2))
                 loadCenter == RSub(b, RDiv(loadWidth, R(3)))
             IN  RDiv(Prod(<<totalLoad, position, position,
                             RSub(RMul(R(3), loadCenter), position)>>),
                      RMul(R(6), EI))
        ELSE IF RLe(position, b)
        THEN LET x1 == RSub(position, a) IN
             RSub(RDiv(Prod(<<w, position, position, position, loadWidth>>),
                       RMul(R(24), EI)),
                  RDiv(Prod(<<w, x1, x1, x1, RSub(RMul(R(4), position), x1)>>),
                       Prod(<<R(24), EI, loadWidth>>)))
        ELSE Zero
  ELSE Zero

\* the term of a point load on a fixed beam that is added at every x
DeflectionFixedPointFirst(load, position, L, EI) ==
  LET a == load.position IN
  RDiv(Prod(<<load.magnitude, position, position,
              RSub(RMul(R(3), L), position), a>>),
       Prod(<<R(6), EI, L>>))

\* a point load on a fixed beam for x > a: the term above less the term
\* that is subtracted there
DeflectionFixedPointBeyond(load, position, L, EI) ==
  LET a == load.position IN
  RSub(DeflectionFixedPointFirst(load, position, L, EI),
       RDiv(RMul(load.magnitude, Cube(RSub(position, a))), RMul(R(6), EI)))

DeflectionFixed(load, position, length, EI) ==
  LET L == length IN
  IF load.type = "point-load" /\ load.position # Undefined THEN
    IF RGt(position, load.position)
    THEN DeflectionFixedPointBeyond(load, position, L, EI)
    ELSE DeflectionFixedPointFirst(load, position, L, EI)
  ELSE IF load.type = "uniform-load" THEN
    LET startPos == OrElse(load.startPosition, Zero)
        endPos   == OrElse(load.endPosition, length)
        w        == load.magnitude
    IN  IF RGe(RSub(endPos, startPos), length)
        THEN RDiv(Prod(<<w, position, position, RSub(L, position),
                         RSub(L, position)>>),
                  RMul(R(24), EI))
        ELSE LET loadLength == RSub(endPos, startPos)
                 equivalentPointLoad == RMul(w, loadLength)
                 loadCenter == RAdd(startPos, RDiv(loadLength, R(2)))
                 first == RDiv(Prod(<<equivalentPointLoad, position, position,
                                      RSub(RMul(R(3), L), position), loadCenter>>),
                               Prod(<<R(6), EI, L>>))
             IN  IF RGt(position, loadCenter)
                 THEN RSub(first,
                           RDiv(RMul(equivalentPointLoad,
                                     Cube(RSub(position, loadCenter))),
                                RMul(R(6), EI)))
                 ELSE first
  ELSE IF load.type = "triangular-load" THEN
    LET startPos  == OrElse(load.startPosition, Zero)
        endPos    == OrElse(load.endPosition, length)
        w         == load.magnitude
        a         == startPos
        b         == endPos
        loadWidth == RSub(b, a)
        totalLoad  == RDiv(RMul(w, loadWidth), R(2))
        loadCenter == RSub(b, RDiv(loadWidth, R(3)))
    IN  IF RLe(position, a)
        THEN RDiv(Prod(<<totalLoad, position, position,
                         RSub(RMul(R(3), L), position), loadCenter>>),
                  Prod(<<R(6), EI, L, L>>))
        ELSE IF RLe(position, b)
        THEN LET x1 == RSub(position, a) IN
             RSub(RDiv(Prod(<<w, position, position, RSub(L, position),
                              RSub(L, position), loadWidth>>),
                       Prod(<<R(120), EI, L, L>>)),
                  RDiv(Prod(<<w, x1, x1, x1, position, RSub(L, position)>>),
                       Prod(<<R(60), EI, L, L, loadWidth>>)))
        ELSE RDiv(Prod(<<totalLoad, position, position, RSub(L, position),
                         RSub(L, position), loadCenter>>),
                  Prod(<<R(6), EI, L, L, L>>))
  ELSE Zero

\* one pass of the `for (const load of loads)` loop
LoadDeflection(beamType, load, position, length, EI) ==
  IF beamType = "simply-supported"
    THEN DeflectionSimplySupported(load, position, length, EI)
  ELSE IF beamType = "cantilever"
    THEN DeflectionCantilever(load, position, length, EI)
  ELSE IF beamType = "fixed"
    THEN DeflectionFixed(load, position, length, EI)
  ELSE Zero

\* mutant: `=` instead of `+=`, only the last load counts
RECURSIVE DeflectionFrom_Overwrite(_, _, _, _, _)
DeflectionFrom_Overwrite(cp, EI, position, i, totalDeflection) ==
  IF i > Len(cp.loads) THEN totalDeflection
  ELSE DeflectionFrom_Overwrite(cp, EI, position, i + 1,
         LoadDeflection(cp.beamType, cp.loads[i], position, cp.length, EI))

RECURSIVE DeflectionFrom(_, _, _, _, _)
DeflectionFrom(cp, EI, position, i, totalDeflection) ==
  IF i > Len(cp.loads) THEN totalDeflection
  ELSE DeflectionFrom(cp, EI, position, i + 1,
         RAdd(totalDeflection,
              LoadDeflection(cp.beamType, cp.loads[i], position, cp.length, EI)))

\* The source also evaluates calculateBendingMoment(calculationParams,
\* position) here and discards the value; it has no effect on the result.
calculateDeflectionAt(params, position) ==
  LET calculationParams == convertToCalculationUnits(params)
      EI == RMul(calculationParams.elasticModulus,
                 calculationParams.momentOfInertia)
  IN  DeflectionFrom(calculationParams, EI, position, 1, Zero)

----------------------------------------------------------------------------
(* Slope evaluator: contribution of one load (calculation units) to the     *)
(* slope at `position`, for each beam type.                                 *)

SlopeSimplySupported(load, position, length, EI, leftSupport, rightSupport) ==
  LET span == RSub(rightSupport, leftSupport)
      L    == span
      x    == RSub(position, leftSupport)
  IN
  IF load.type = "point-load" /\ load.position # Undefined THEN
    IF RLt(load.position, leftSupport) \/ RGt(load.position, rightSupport)
    THEN Zero
    ELSE LET a == RSub(load.position, leftSupport) IN
         IF RLt(x, Zero) \/ RGt(x, L) THEN Zero
         ELSE IF RLe(x, a)
         THEN RDiv(Prod(<<load.magnitude, a, RSub(L, a), RSub(RSub(L, a), x)>>),
                   Prod(<<R(6), EI, L>>))
         ELSE RDiv(Prod(<<load.magnitude, a, a, RSub(x, a)>>),
                   Prod(<<R(6), EI, L>>))
  ELSE IF load.type = "uniform-load" THEN
    LET startPos     == OrElse(load.startPosition, Zero)
        endPos       == OrElse(load.endPosition, length)
        overlapStart == RMax(startPos, leftSupport)
        overlapEnd   == RMin(endPos, rightSupport)
        w            == load.magnitude
    IN  IF RGe(overlapStart, overlapEnd) THEN Zero
        ELSE IF RLt(x, Zero) \/ RGt(x, L) THEN Zero
        ELSE IF REq(overlapStart, leftSupport) /\ REq(overlapEnd, rightSupport)
        THEN RDiv(RMul(w, RAdd(RSub(Cube(L), Prod(<<R(4), L, x, x>>)),
                               Prod(<<R(2), x, x, x>>))),
                  Prod(<<R(24), EI, L>>))
        ELSE LET loadLength == RSub(overlapEnd, overlapStart)
                 midPoint   == RSub(RDiv(RAdd(overlapStart, overlapEnd), R(2)),
                                    leftSupport)
                 totalLoad  == RMul(w, loadLength)
             IN  IF RLe(x, RSub(overlapStart, leftSupport))
                 THEN RDiv(RMul(totalLoad,
                                RSub(RMul(x, RSub(L, midPoint)),
                                     RDiv(RMul(x, x), R(2)))),
                           RMul(EI, L))
                 ELSE IF RLe(x, RSub(overlapEnd, leftSupport))
                 THEN LET x1 == RSub(x, RSub(overlapStart, leftSupport)) IN
                      RDiv(RMul(w, RSub(RMul(x, RSub(L, x)),
                                        RDiv(RMul(x1, x1), R(2)))),
                           RMul(EI, L))
                 ELSE RDiv(Prod(<<totalLoad, RSub(L, x), RDiv(midPoint, L)>>), EI)
  ELSE IF load.type = "triangular-load" THEN
    LET startPos     == OrElse(load.startPosition, Zero)
        endPos       == OrElse(load.endPosition, length)
        overlapStart == RMax(startPos, leftSupport)
        overlapEnd   == RMin(endPos, rightSupport)
    IN  IF RGe(overlapStart, overlapEnd) THEN Zero
        ELSE IF RLt(x, Zero) \/ RGt(x, L) THEN Zero
        ELSE
          LET a == RSub(overlapStart, leftSupport)
              b == RSub(overlapEnd, leftSupport)
              c == RSub(b, a)
              w == load.magnitude
              totalLoad  == RDiv(RMul(w, c), R(2))
              loadCenter == RSub(b, RDiv(c, R(3)))
          IN  IF RLe(x, a)
              THEN RDiv(Prod(<<totalLoad, RSub(L, loadCenter), x>>), RMul(EI, L))
              ELSE IF RLe(x, b)
              THEN LET x1 == RSub(x, a)
                       loadIntensityAtX    == RDiv(RMul(w, x1), c)
                       remainingLength     == RSub(b, x)
                       remainingLoadArea   ==
                         RDiv(RMul(loadIntensityAtX, remainingLength), R(2))
                       remainingLoadCenter ==
                         RAdd(x, RDiv(RMul(remainingLength, R(2)), R(3)))
                   IN  RDiv(Prod(<<remainingLoadArea,
                                   RSub(L, remainingLoadCenter), x>>),
                            RMul(EI, L))
              ELSE RDiv(Prod(<<totalLoad, loadCenter, RSub(L, x)>>), RMul(EI, L))
  ELSE Zero

SlopeCantilever(load, position, length, EI) ==
  IF load.type = "point-load" /\ load.position # Undefined THEN
    LET a == load.position IN
    IF RLe(position, a)
    THEN RDiv(Prod(<<load.magnitude, position, RSub(RMul(R(2), a), position)>>),
              RMul(R(2), EI))
    ELSE RDiv(Prod(<<load.magnitude, a, a>>), RMul(R(2), EI))
  ELSE IF load.type = "uniform-load" THEN
    LET startPos == OrElse(load.startPosition, Zero)
        endPos   == OrElse(load.endPosition, length)
        w        == load.magnitude
    IN  IF RGe(RSub(endPos, startPos), length)
        THEN RDiv(Prod(<<w, position, RSub(RMul(R(2), length), position)>>),
                  RMul(R(4), EI))
        ELSE LET loadLength == RSub(endPos, startPos) IN
             IF RLe(position, startPos)
             THEN RDiv(Prod(<<w, loadLength,
                              RSub(RDiv(RMul(R(2), RAdd(endPos, startPos)), R(2)),
                                   position)>>),
                       RMul(R(2), EI))
             ELSE IF RLe(position, endPos)
             THEN RDiv(Prod(<<w, RSub(endPos, position), RSub(endPos, position)>>),
                       RMul(R(4), EI))
             ELSE Zero
  ELSE IF load.type = "triangular-load" THEN
    LET startPos  == OrElse(load.startPosition, Zero)
        endPos    == OrElse(load.endPosition, length)
        w         == load.magnitude
        loadWidth == RSub(endPos, startPos)
    IN  IF RLe(position, startPos)
        THEN LET totalLoad  == RDiv(RMul(w, loadWidth), R(2))
                 loadCenter == RSub(endPos, RDiv(loadWidth, R(3)))
             IN  RDiv(RMul(totalLoad, RSub(RMul(R(2), loadCenter), position)),
                      RMul(R(2), EI))
        ELSE IF RLe(position, endPos)
        THEN LET x1 == RSub(position, startPos)
                 heightAtPosition == RDiv(RMul(w, x1), loadWidth)
                 remainingWidth   == RSub(endPos, position)
             IN  RDiv(Prod(<<heightAtPosition, remainingWidth, remainingWidth>>),
                      RMul(R(6), EI))
        ELSE Zero
  ELSE Zero

\* the shared formula of the partial uniform and the triangular load
SlopeFixedEquivalent(totalLoad, loadCenter, position, L, EI) ==
  IF RLe(position, loadCenter)
  THEN RDiv(Prod(<<totalLoad, position,
                   RSub(RSub(L, loadCenter), RDiv(position, R(3)))>>),
            Prod(<<R(2), EI, L>>))
  ELSE RDiv(Prod(<<totalLoad, RSub(L, position),
                   RSub(position, RDiv(loadCenter, R(3)))>>),
            Prod(<<R(2), EI, L>>))

SlopeFixed(load, position, length, EI) ==
  LET L == length IN
  IF load.type = "point-load" /\ load.position # Undefined THEN
    LET a == load.position IN
    IF RLe(position, a)
    THEN RDiv(Prod(<<load.magnitude, a, position, RSub(RSub(L, a), position)>>),
              Prod(<<R(2), EI, L>>))
    ELSE RDiv(Prod(<<load.magnitude, a, RSub(L, position), RSub(position, a)>>),
              Prod(<<R(2), EI, L>>))
  ELSE IF load.type = "uniform-load" THEN
    LET startPos == OrElse(load.startPosition, Zero)
        endPos   == OrElse(load.endPosition, length)
        w        == load.magnitude
    IN  IF RGe(RSub(endPos, startPos), length)
        THEN RDiv(Prod(<<w, position, RSub(L, position),
                         RSub(L, RMul(R(2), position))>>),
                  RMul(R(12), EI))
        ELSE LET loadLength == RSub(endPos, startPos)
                 loadCenter == RAdd(startPos, RDiv(loadLength, R(2)))
                 totalLoad  == RMul(w, loadLength)
             IN  SlopeFixedEquivalent(totalLoad, loadCenter, position, L, EI)
  ELSE IF load.type = "triangular-load" THEN
    LET startPos   == OrElse(load.startPosition, Zero)
        endPos     == OrElse(load.endPosition, length)
        w          == load.magnitude
        loadWidth  == RSub(endPos, startPos)
        totalLoad  == RDiv(RMul(w, loadWidth), R(2))
        loadCenter == RSub(endPos, RDiv(loadWidth, R(3)))
    IN  SlopeFixedEquivalent(totalLoad, loadCenter, position, L, EI)
  ELSE Zero

LoadSlope(beamType, load, position, length, EI, leftSupport, rightSupport) ==
  IF beamType = "simply-supported"
    THEN SlopeSimplySupported(load, position, length, EI, leftSupport, rightSupport)
  ELSE IF beamType = "cantilever"
    THEN SlopeCantilever(load, position, length, EI)
  ELSE IF beamType = "fixed"
    THEN SlopeFixed(load, position, length, EI)
  ELSE Zero

RECURSIVE SlopeFrom(_, _, _, _, _, _, _)
SlopeFrom(cp, EI, position, leftSupport, rightSupport, i, totalSlope) ==
  IF i > Len(cp.loads) THEN totalSlope
  ELSE SlopeFrom(cp, EI, position, leftSupport, rightSupport, i + 1,
         RAdd(totalSlope,
              LoadSlope(cp.beamType, cp.loads[i], position, cp.length, EI,
                        leftSupport, rightSupport)))

calculateSlopeAt(params, position) ==
  LET calculationParams == convertToCalculationUnits(params)
      EI == RMul(calculationParams.elasticModulus,
                 calculationParams.momentOfInertia)
      leftSupport  == leftSupportOf(params)
      rightSupport == rightSupportOf(params, calculationParams.length)
  IN  SlopeFrom(calculationParams, EI, position, leftSupport, rightSupport,
                1, Zero)

----------------------------------------------------------------------------
(* Sampler and result summary *)

numPoints == 100
numSamples == 50

\* Math.PI, as the rational 355/113
PI == <<355, 113, 0>>
RadToDeg == RDiv(R(180), PI)

\* the fraction i / n alone, not scaled by the length of the beam
SampleX_Unscaled(i, n, length) == RDiv(R(i), R(n))

\* x of sample i out of n: (i / n) * length
SampleX(i, n, length) == RMul(RDiv(R(i), R(n)), length)

calculateDeflectionPoints(params) ==
  [k \in 1..(numPoints + 1) |->
     LET x == SampleX(k - 1, numPoints, params.length) IN
     [x |-> x, y |-> RMul(calculateDeflectionAt(params, x), R(1000))]]

calculateSlopePoints(params) ==
  [k \in 1..(numPoints + 1) |->
     LET x == SampleX(k - 1, numPoints, params.length) IN
     [x |-> x, y |-> RMul(calculateSlopeAt(params, x), RadToDeg)]]

\* one pass of the loop that looks for the deflection of greatest absolute
\* value, from t = <<maxDeflection, maxDeflectionPosition, deflection, position>>
GreaterDeflection[t \in Num \X Num \X Num \X Num] ==
  LET maxDeflection         == t[1]
      maxDeflectionPosition == t[2]
      deflection            == t[3]
      position              == t[4]
  IN  IF RGt(RAbs(deflection), RAbs(maxDeflection))
      THEN <<deflection, position>>
      ELSE <<maxDeflection, maxDeflectionPosition>>

\* the loop from sample i on, started with
\* max = <<maxDeflection, maxDeflectionPosition>>
RECURSIVE MaxDeflectionFrom(_, _)
MaxDeflectionFrom(params, i) ==
  [max \in Num \X Num |->
     IF i > numSamples THEN max
     ELSE MaxDeflectionFrom(params, i + 1)[
            GreaterDeflection[
              max \o <<calculateDeflectionAt(
                         params, SampleX(i, numSamples, params.length)),
                       SampleX(i, numSamples, params.length)>>]]]

\* one pass of the loop that looks for the greatest absolute slope, from
\* t = <<maxSlope, maxSlopePosition, slope, position>>
GreaterSlope[t \in Num \X Num \X Num \X Num] ==
  LET maxSlope         == t[1]
      maxSlopePosition == t[2]
      slope            == t[3]
      position         == t[4]
  IN  IF RGt(RAbs(slope), maxSlope)
      THEN <<RAbs(slope), position>>
      ELSE <<maxSlope, maxSlopePosition>>

\* the loop from sample i on, started with max = <<maxSlope, maxSlopePosition>>
RECURSIVE MaxSlopeFrom(_, _)
MaxSlopeFrom(params, i) ==
  [max \in Num \X Num |->
     IF i > numSamples THEN max
     ELSE MaxSlopeFrom(params, i + 1)[
            GreaterSlope[
              max \o <<calculateSlopeAt(
                         params, SampleX(i, numSamples, params.length)),
                       SampleX(i, numSamples, params.length)>>]]]

\* <<maxSlope, maxSlopePosition>> before the sampling loop, from
\* t = <<leftEndSlope, rightEndSlope, midspanSlope, length>>
InitialMaxSlope[t \in Num \X Num \X Num \X Num] ==
  LET leftEndSlope  == t[1]
      rightEndSlope == t[2]
      midspanSlope  == t[3]
      length        == t[4]
      maxSlope == RMax(RMax(RAbs(leftEndSlope), RAbs(rightEndSlope)),
                       RAbs(midspanSlope))
      maxSlopePosition ==
        IF RGt(RAbs(leftEndSlope), RAbs(rightEndSlope)) THEN Zero ELSE length
  IN  IF RGt(RAbs(midspanSlope), maxSlope)
      THEN <<RAbs(midspanSlope), RDiv(length, R(2))>>
      ELSE <<maxSlope, maxSlopePosition>>

\* the sampling loop started from the midspan deflection m
MaxDeflectionOver(params) ==
  [m \in Num |-> MaxDeflectionFrom(params, 0)[<<m, RDiv(params.length, R(2))>>]]

\* the deflection block of the result, from
\* t = <<leftEndDeflection, rightEndDeflection, midspanDeflection,
\*       maxDeflection, maxDeflectionPosition>>
DeflectionResult[t \in Seq(Num)] ==
  [leftEnd     |-> RMul(t[1], R(1000)),
   rightEnd    |-> RMul(t[2], R(1000)),
   midspan     |-> RMul(t[3], R(1000)),
   maxValue    |-> RMul(t[4], R(1000)),
   maxPosition |-> t[5]]

\* the slope block of the result, from
\* t = <<leftEndSlope, rightEndSlope, midspanSlope, maxSlope, maxSlopePosition>>
SlopeResult[t \in Seq(Num)] ==
  [leftEnd     |-> RMul(t[1], RadToDeg),
   rightEnd    |-> RMul(t[2], RadToDeg),
   midspan     |-> RMul(t[3], RadToDeg),
   maxValue    |-> RMul(t[4], RadToDeg),
   maxPosition |-> t[5]]

\* ends = <<leftEndDeflection, rightEndDeflection, midspanDeflection>>
DeflectionSummaryOf(params) ==
  [ends \in Num \X Num \X Num |->
     DeflectionResult[ends \o MaxDeflectionOver(params)[ends[3]]]]

\* ends = <<leftEndSlope, rightEndSlope, midspanSlope>>
SlopeSummaryOf(params) ==
  [ends \in Num \X Num \X Num |->
     SlopeResult[ends \o MaxSlopeFrom(params, 0)[
                           InitialMaxSlope[ends \o <<params.length>>]]]]

DeflectionSummary(params) ==
  DeflectionSummaryOf(params)[
    <<calculateDeflectionAt(params, Zero),
      calculateDeflectionAt(params, params.length),
      calculateDeflectionAt(params, RDiv(params.length, R(2)))>>]

SlopeSummary(params) ==
  SlopeSummaryOf(params)[
    <<calculateSlopeAt(params, Zero),
      calculateSlopeAt(params, params.length),
      calculateSlopeAt(params, RDiv(params.length, R(2)))>>]

\* Number.prototype.toFixed(digits): the sign and the decimal digits of |v|
\* rounded to `digits` places (half away from zero), as the integer
\* round(|v| * 10^digits); "-0.00" and "0.00" are different texts
ToFixed[p \in Num \X Nat] ==
  LET v      == p[1]
      digits == p[2]
      shift  == v[3] + digits
      twice  == IF shift >= 0
                THEN (2 * Abs(v[1]) * Pow10(shift)) \div v[2]
                ELSE IF shift < -9 THEN 0
                ELSE ((2 * Abs(v[1])) \div v[2]) \div Pow10(-shift)
  IN  IF ~Finite(v)
      THEN [negative |-> v[1] < 0, digits |-> digits,
            scaled |-> IF v[1] = 0 THEN "NaN" ELSE "Infinity"]
      ELSE [negative |-> v[1] < 0, digits |-> digits,
            scaled |-> (twice + 1) \div 2]

\* s.charAt(0).toUpperCase() + s.slice(1) on the beam types
Capitalize(s) ==
  CASE s = "simply-supported" -> "Simply-supported"
    [] s = "cantilever"       -> "Cantilever"
    [] s = "fixed"            -> "Fixed"
    [] OTHER                  -> s

\* JavaScript truthiness of a number: 0 is falsy
Truthy(v) == v # Undefined /\ v[1] # 0

\* the formula text of the deflection step
deflectionFormula(beamType) ==
  IF beamType = "simply-supported"
    THEN "d = (PL^3)/(48EI) for center point load"
  ELSE IF beamType = "cantilever"
    THEN "d = (PL^3)/(3EI) for end point load"
  ELSE IF beamType = "fixed"
    THEN "d = (PL^3)/(192EI) for center point load"
  ELSE ""

\* the result text of the reactions step, from r = <<R1, R2, M1, M2>> in N;
\* a template literal is the sequence of its parts
ReactionsText[r \in Num \X Num \X Num \X Num] ==
  <<"R1 = ", ToFixed[<<RDiv(r[1], R(1000)), 2>>], " kN, R2 = ",
    ToFixed[<<RDiv(r[2], R(1000)), 2>>], " kN">>
  \o (IF Truthy(r[3])
      THEN <<", M1 = ", ToFixed[<<RDiv(r[3], R(1000)), 2>>], " kN.m">>
      ELSE <<>>)
  \o (IF Truthy(r[4])
      THEN <<", M2 = ", ToFixed[<<RDiv(r[4], R(1000)), 2>>], " kN.m">>
      ELSE <<>>)

ReactionsTextOf(reactions) ==
  ReactionsText[<<reactions.R1, reactions.R2, reactions.M1, reactions.M2>>]

generateCalculationSteps(params) ==
  << [title |-> "Beam Configuration",
      description |->
        <<Capitalize(params.beamType), " beam with length ", params.length,
          " m. Elastic modulus (E): ", params.elasticModulus,
          " MPa Moment of inertia (I): ", params.momentOfInertia, " mm^4">>,
      formula |-> Undefined,
      result  |-> Undefined],
     [title |-> "Support Reactions",
      description |-> <<"Calculate the reactions at the supports based on equilibrium equations.">>,
      formula |-> "Sum Forces = 0, Sum Moments = 0",
      result  |-> ReactionsTextOf(calculateTotalReactions(params))],
     [title |-> "Deflection Calculation Method",
      description |-> <<"Using the principle of superposition and integrating the bending moment equation twice to find deflection.">>,
      formula |-> deflectionFormula(params.beamType),
      result  |->
        <<"Maximum deflection = ",
          ToFixed[<<RMul(calculateDeflectionAt(params,
                                               RDiv(params.length, R(2))),
                         R(1000)), 3>>],
          " mm at midspan">>],
     [title |-> "Slope Calculation",
      description |-> <<"The slope is calculated by taking the first derivative of the deflection curve.">>,
      formula |-> "theta = d(delta)/dx",
      result  |->
        <<"Maximum slope = ",
          ToFixed[<<RAbs(RMul(calculateSlopeAt(params, Zero), RadToDeg)), 4>>],
          " deg at support">>] >>

performCalculations(params) ==
  [deflection       |-> DeflectionSummary(params),
   slope            |-> SlopeSummary(params),
   steps            |-> generateCalculationSteps(params),
   deflectionPoints |-> calculateDeflectionPoints(params),
   slopePoints      |-> calculateSlopePoints(params)]

\* the caller's object if the conversion wrote the converted values into it
ParamsAfterConversion_InPlace(params) == convertToCalculationUnits(params)

\* The caller's BeamParameters object once a call has returned: the
\* conversion builds its result with spreads ({...params}, {...load}) and map,
\* and no function of the engine assigns to params or to a load
ParamsAfterConversion(params) == params

----------------------------------------------------------------------------
(* The beams the engine is called with *)

MaxLen == 2
MaxLoads == 2
XDen == 2

DefaultElasticModulus == 200000
DefaultMomentOfInertia == 40000000
DefaultMagnitude == 10

Grid(len) == {R(k) : k \in 0..len}

LoadShapes(len) ==
  {PointLoad(0, R(DefaultMagnitude), pos) : pos \in Grid(len)}
  \cup {UniformLoad(0, R(DefaultMagnitude), R(s), R(e)) :
          <<s, e>> \in {se \in (0..len) \X (0..len) : se[1] < se[2]}}
  \cup {TriangularLoad(0, R(DefaultMagnitude), R(s), R(e)) :
          <<s, e>> \in {se \in (0..len) \X (0..len) : se[1] < se[2]}}

\* load lists of 1..MaxLoads loads; a load's id is its place in the list
LoadLists(len) ==
  {[i \in 1..n |-> [f[i] EXCEPT !.id = i]] :
     <<n, f>> \in UNION {{n} \X [1..n -> LoadShapes(len)] : n \in 1..MaxLoads}}

\* supports left at their defaults, or both set with left < right
SupportChoices(len) ==
  {<<Undefined, Undefined>>}
  \cup {<<R(l), R(r)>> : <<l, r>> \in {lr \in (0..len) \X (0..len) : lr[1] < lr[2]}}

Beam(len, beamType, loads, supports) ==
  [length |-> R(len),
   elasticModulus  |-> R(DefaultElasticModulus),
   momentOfInertia |-> R(DefaultMomentOfInertia),
   beamType |-> beamType,
   loads |-> loads,
   leftSupportPosition  |-> supports[1],
   rightSupportPosition |-> supports[2]]

\* the initial parameters of the calculator: 5 m, 10 kN at midspan
DefaultBeam ==
  [length |-> R(5),
   elasticModulus  |-> R(DefaultElasticModulus),
   momentOfInertia |-> R(DefaultMomentOfInertia),
   beamType |-> "simply-supported",
   loads |-> <<PointLoad(1, R(DefaultMagnitude), RDiv(R(5), R(2)))>>,
   leftSupportPosition  |-> Undefined,
   rightSupportPosition |-> Undefined]

Beams ==
  {DefaultBeam}
  \cup UNION {{Beam(len, bt, ls, sp) :
                 bt \in BeamTypes, ls \in LoadLists(len), sp \in SupportChoices(len)}
              : len \in 2..MaxLen}

\* evaluation positions k / XDen in [0, length]
Positions(length) ==
  {RDiv(R(k), R(XDen)) : k \in 0..(length[1] * Pow10(length[3]) * XDen)}

----------------------------------------------------------------------------
(* The calculator form (src/components/BeamCalculator.tsx): data *)

\* `results` before the first calculation and after a reset: a record, as
\* the results are, with no field of theirs
Null == [null |-> TRUE]

\* useState<BeamParameters>: 5 m, steel, one 10 kN point load at 2.5 m
InitialParameters ==
  [length |-> R(5),
   elasticModulus  |-> R(DefaultElasticModulus),
   momentOfInertia |-> R(DefaultMomentOfInertia),
   beamType |-> "simply-supported",
   loads |-> <<PointLoad(1, R(DefaultMagnitude), RDiv(R(5), R(2)))>>]

----------------------------------------------------------------------------
(* State *)

VARIABLES
  params,      \* the BeamParameters the engine is called with
  op,          \* the function called last, "none" before the first call
  position,    \* the position argument of the last call
  loadIndex,   \* the loadIndex argument of the last call
  out,         \* the value it returned
  parameters,  \* BeamCalculator: the `parameters` state of the form
  results,     \* BeamCalculator: the `results` state, Null before a calculation
  activeTab,   \* BeamCalculator: the `activeTab` state
  toast,       \* BeamCalculator: the toast the last handler raised, if any
  edits        \* BeamCalculator: edits made since the defaults were set

engine == <<params, op, position, loadIndex, out>>
ui == <<parameters, results, activeTab, toast, edits>>
vars == <<params, op, position, loadIndex, out,
          parameters, results, activeTab, toast, edits>>

\* the calculator as it is mounted
InitUI ==
  /\ parameters = InitialParameters
  /\ results = Null
  /\ activeTab = "parameters"
  /\ toast = "none"
  /\ edits = 0

Init ==
  /\ params \in Beams
  /\ op = "none"
  /\ position = Zero
  /\ loadIndex = 0
  /\ out = Undefined
  /\ InitUI

\* Every function of the engine is pure, so a behaviour is one call: the
\* caller picks a function and its arguments, and the result is recorded.

CallCalculateReactions ==
  \E i \in 1..Len(params.loads) :
    /\ op = "none"
    /\ op' = "calculateReactions"
    /\ loadIndex' = i
    /\ out' = calculateReactions(params, i)
    /\ UNCHANGED <<params, position>>
    /\ UNCHANGED ui

CallCalculateTotalReactions ==
  /\ op = "none"
  /\ op' = "calculateTotalReactions"
  /\ out' = calculateTotalReactions(params)
  /\ UNCHANGED <<params, position, loadIndex>>
  /\ UNCHANGED ui

CallCalculateBendingMoment ==
  \E x \in Positions(params.length) :
    /\ op = "none"
    /\ op' = "calculateBendingMoment"
    /\ position' = x
    /\ out' = calculateBendingMoment(params, x)
    /\ UNCHANGED <<params, loadIndex>>
    /\ UNCHANGED ui

CallCalculateShearForce ==
  \E x \in Positions(params.length) :
    /\ op = "none"
    /\ op' = "calculateShearForce"
    /\ position' = x
    /\ out' = calculateShearForce(params, x)
    /\ UNCHANGED <<params, loadIndex>>
    /\ UNCHANGED ui

CallCalculateDeflectionAt ==
  \E x \in Positions(params.length) :
    /\ op = "none"
    /\ op' = "calculateDeflectionAt"
    /\ position' = x
    /\ out' = calculateDeflectionAt(params, x)
    /\ UNCHANGED <<params, loadIndex>>
    /\ UNCHANGED ui

CallCalculateSlopeAt ==
  \E x \in Positions(params.length) :
    /\ op = "none"
    /\ op' = "calculateSlopeAt"
    /\ position' = x
    /\ out' = calculateSlopeAt(params, x)
    /\ UNCHANGED <<params, loadIndex>>
    /\ UNCHANGED ui

\* a call of performCalculations, the first one or a second one on the same
\* BeamParameters value
CallPerformCalculations ==
  /\ op \in {"none", "performCalculations"}
  /\ op' = IF op = "none" THEN "performCalculations"
                           ELSE "performCalculationsAgain"
  /\ out' = performCalculations(params)
  /\ params' = ParamsAfterConversion(params)
  /\ UNCHANGED <<position, loadIndex>>
  /\ UNCHANGED ui

Next ==
  \/ CallCalculateReactions
  \/ CallCalculateTotalReactions
  \/ CallCalculateBendingMoment
  \/ CallCalculateShearForce
  \/ CallCalculateDeflectionAt
  \/ CallCalculateSlopeAt

Spec == Init /\ [][Next]_vars

\* performCalculations is checked on the beams that carry a single point load
\* or a single partial uniform load, and on those with two point loads and
\* the supports at their defaults: their sampled values at x = i*length/100
\* stay within the 32-bit integers of TLC
PerformBeams ==
  {b \in Beams :
     \/ /\ Len(b.loads) = 1
        /\ \/ b.loads[1].type = "point-load"
           \/ /\ b.loads[1].type = "uniform-load"
              /\ RLt(RSub(b.loads[1].endPosition, b.loads[1].startPosition),
                     b.length)
     \/ /\ Len(b.loads) = 2
        /\ b.loads[1].type = "point-load"
        /\ b.loads[2].type = "point-load"
        /\ b.leftSupportPosition = Undefined}

InitPerform ==
  /\ params \in PerformBeams
  /\ op = "none"
  /\ position = Zero
  /\ loadIndex = 0
  /\ out = Undefined
  /\ InitUI

NextPerform ==
  \/ CallCalculateTotalReactions
  \/ CallPerformCalculations

SpecPerform == InitPerform /\ [][NextPerform]_vars

----------------------------------------------------------------------------
(* Vocabulary of the properties *)

\* the beam invariant of the data model
WellFormed(p) ==
  LET ls == leftSupportOf(p)
      rs == rightSupportOf(p, p.length)
  IN  /\ RLe(Zero, ls) /\ RLt(ls, rs) /\ RLe(rs, p.length)
      /\ \A i \in 1..Len(p.loads) :
           LET l == p.loads[i] IN
           IF l.type = "point-load"
           THEN RLe(Zero, l.position) /\ RLe(l.position, p.length)
           ELSE /\ RLe(Zero, l.startPosition)
                /\ RLt(l.startPosition, l.endPosition)
                /\ RLe(l.endPosition, p.length)

\* resultant force of a load in N: magnitude, magnitude * width, or half
\* of that for a triangle
Resultant(l) ==
  LET F == RMul(l.magnitude, R(1000)) IN
  IF l.type = "point-load" THEN F
  ELSE IF l.type = "uniform-load"
    THEN RMul(F, RSub(l.endPosition, l.startPosition))
  ELSE RDiv(RMul(F, RSub(l.endPosition, l.startPosition)), R(2))

RECURSIVE ResultantSum(_, _)
ResultantSum(loads, i) ==
  IF i > Len(loads) THEN Zero
  ELSE RAdd(Resultant(loads[i]), ResultantSum(loads, i + 1))

\* the load lies within [lo, hi]
LoadWithin(l, lo, hi) ==
  IF l.type = "point-load"
  THEN RLe(lo, l.position) /\ RLe(l.position, hi)
  ELSE RLe(lo, l.startPosition) /\ RLe(l.endPosition, hi)

\* the extent of the load does not meet [lo, hi]
LoadOutside(l, lo, hi) ==
  IF l.type = "point-load"
  THEN RLt(l.position, lo) \/ RGt(l.position, hi)
  ELSE RLt(l.endPosition, lo) \/ RGt(l.startPosition, hi)

AllLoadsInSpan(p) ==
  \A i \in 1..Len(p.loads) :
    LoadWithin(p.loads[i], leftSupportOf(p), rightSupportOf(p, p.length))

DefaultSupports(p) ==
  /\ REq(leftSupportOf(p), Zero)
  /\ REq(rightSupportOf(p, p.length), p.length)

\* E * I in N*m^2
FlexuralRigidity(p) ==
  Prod(<<p.elasticModulus, <<1, 1, 6>>, p.momentOfInertia, <<1, 1, -12>>>>)

EquilibriumHolds ==
  IF params.beamType = "cantilever"
  THEN REq(out.R1, ResultantSum(params.loads, 1))
  ELSE REq(RAdd(out.R1, out.R2), ResultantSum(params.loads, 1))

----------------------------------------------------------------------------
(* Properties *)

\* C1 (as stated): for every well-formed beam calculateTotalReactions
\* returns R1 + R2 (cantilever: R1) equal to the sum of the load resultants.
C1_Equilibrium ==
  (op = "calculateTotalReactions" /\ WellFormed(params)) => EquilibriumHolds

\* C1 (amended): equilibrium holds for every well-formed cantilever and fixed
\* beam, and for every well-formed simply-supported beam whose loads all lie
\* within [leftSupportPosition, rightSupportPosition].
C1_EquilibriumWithinSpan ==
  ( /\ op = "calculateTotalReactions"
    /\ WellFormed(params)
    /\ (params.beamType = "simply-supported" => AllLoadsInSpan(params)) )
  => EquilibriumHolds

C1_Witness ==
  /\ op = "calculateTotalReactions"
  /\ params.beamType = "simply-supported"
  /\ RGt(leftSupportOf(params), Zero)
  /\ Len(params.loads) = 2
  /\ params.loads[1].type = "uniform-load"
  /\ params.loads[2].type = "triangular-load"
  /\ AllLoadsInSpan(params)
  /\ RGt(out.R1, Zero) /\ RGt(out.R2, Zero)

\* C2: on a well-formed simply-supported or fixed beam the deflection at
\* x = length is 0, whatever the loads.
C2_RightEndDeflectionZero ==
  ( /\ op = "calculateDeflectionAt"
    /\ WellFormed(params)
    /\ params.beamType \in {"simply-supported", "fixed"}
    /\ REq(position, params.length) )
  => REq(out, Zero)

\* C3: on a well-formed cantilever the deflection and the slope at the fixed
\* end leftSupportPosition (0 by default) are 0, whatever the loads.
C3_CantileverFixedEnd ==
  ( /\ op \in {"calculateDeflectionAt", "calculateSlopeAt"}
    /\ WellFormed(params)
    /\ params.beamType = "cantilever"
    /\ REq(position, leftSupportOf(params)) )
  => REq(out, Zero)

\* C4: on a simply-supported beam with default supports and a single point
\* load at length/2, the deflection at x equals the deflection at length - x.
C4_Symmetry ==
  ( /\ op = "calculateDeflectionAt"
    /\ params.beamType = "simply-supported"
    /\ DefaultSupports(params)
    /\ Len(params.loads) = 1
    /\ params.loads[1].type = "point-load"
    /\ REq(RMul(R(2), params.loads[1].position), params.length) )
  => REq(out, calculateDeflectionAt(params, RSub(params.length, position)))

\* the beam with only the loads from..to of the list
WithLoads(p, from, to) == [p EXCEPT !.loads = SubSeq(p.loads, from, to)]

\* C5: the deflection of a beam carrying the load list A followed by B is
\* the deflection with only A plus the deflection with only B, at every
\* position and for every split of the list.
C5_Superposition ==
  op = "calculateDeflectionAt" =>
    \A k \in 0..Len(params.loads) :
      REq(out,
          RAdd(calculateDeflectionAt(WithLoads(params, 1, k), position),
               calculateDeflectionAt(WithLoads(params, k + 1, Len(params.loads)),
                                     position)))

C5_Witness ==
  /\ op = "calculateDeflectionAt"
  /\ params.beamType = "fixed"
  /\ Len(params.loads) = 2
  /\ params.loads[1].type = "point-load"
  /\ params.loads[2].type = "triangular-load"
  /\ ~REq(calculateDeflectionAt(WithLoads(params, 1, 1), position), Zero)
  /\ ~REq(calculateDeflectionAt(WithLoads(params, 2, 2), position), Zero)

\* 1000 * P*L^3 / (48*E*I) in SI units for P = 10 kN, L = 5 m,
\* E = 200000 MPa, I = 4e7 mm^4: about 3.255 mm
KnownMidspanDeflection ==
  RMul(R(1000), RDiv(Prod(<<R(10000), R(5), R(5), R(5)>>),
                     Prod(<<R(48), <<2, 1, 11>>, <<4, 1, -5>>>>)))

\* |v - ref| <= ref / 100
WithinOnePercent(v, ref) ==
  RLe(RMul(RAbs(RSub(v, ref)), R(100)), RAbs(ref))

\* C6: for the 5 m simply-supported beam with 10 kN at x = 2.5,
\* calculateTotalReactions gives R1 = R2 = 5000 N and performCalculations
\* reports the greatest deflection at 2.5, within 1% of 1000*PL^3/(48EI).
C6_KnownClosedForm ==
  params = DefaultBeam =>
    /\ op = "calculateTotalReactions" =>
         REq(out.R1, R(5000)) /\ REq(out.R2, R(5000))
    /\ op = "performCalculations" =>
         /\ REq(out.deflection.maxPosition, RDiv(R(5), R(2)))
         /\ WithinOnePercent(out.deflection.maxValue, KnownMidspanDeflection)
         /\ RLt(<<325, 1, -2>>, KnownMidspanDeflection)
         /\ RLt(KnownMidspanDeflection, <<326, 1, -2>>)

C6_Witness ==
  /\ params = DefaultBeam
  /\ op = "performCalculations"
  /\ RGt(out.deflection.maxValue, R(3))

\* the load is a point load at the free end of the beam
TipLoad(l, p) == l.type = "point-load" /\ REq(l.position, p.length)

\* C7: on a cantilever fixed at 0, a point load P at position = length gives
\* R1 = P and M1 = P * length, and, when it is the only load, the deflection
\* P * length^3 / (3*E*I) at x = length.
C7_CantileverTipLoad ==
  (params.beamType = "cantilever" /\ REq(leftSupportOf(params), Zero)) =>
    /\ (op = "calculateReactions" /\ TipLoad(params.loads[loadIndex], params)) =>
         /\ REq(out.R1, Resultant(params.loads[loadIndex]))
         /\ out.M1 # Undefined
         /\ REq(out.M1, RMul(Resultant(params.loads[loadIndex]), params.length))
    /\ ( /\ op = "calculateDeflectionAt"
         /\ Len(params.loads) = 1
         /\ TipLoad(params.loads[1], params)
         /\ REq(position, params.length) ) =>
         REq(out, RDiv(RMul(Resultant(params.loads[1]), Cube(params.length)),
                       RMul(R(3), FlexuralRigidity(params))))

C7_Witness ==
  /\ params.beamType = "cantilever"
  /\ REq(leftSupportOf(params), Zero)
  /\ op = "calculateDeflectionAt"
  /\ Len(params.loads) = 1
  /\ TipLoad(params.loads[1], params)
  /\ REq(position, params.length)
  /\ RGt(out, Zero)

\* C8: on a simply-supported beam a point load outside
\* [leftSupportPosition, rightSupportPosition] gets R1 = R2 = 0, and a point
\* load exactly at a support goes entirely to that support.
C8_OutOfSpanPointLoad ==
  ( /\ op = "calculateReactions"
    /\ params.beamType = "simply-supported"
    /\ params.loads[loadIndex].type = "point-load" ) =>
    LET l  == params.loads[loadIndex]
        ls == leftSupportOf(params)
        rs == rightSupportOf(params, params.length)
    IN  /\ (RLt(l.position, ls) \/ RGt(l.position, rs)) =>
             REq(out.R1, Zero) /\ REq(out.R2, Zero)
        /\ REq(l.position, ls) =>
             REq(out.R1, Resultant(l)) /\ REq(out.R2, Zero)
        /\ REq(l.position, rs) =>
             REq(out.R1, Zero) /\ REq(out.R2, Resultant(l))

C8_Witness ==
  /\ op = "calculateReactions"
  /\ params.beamType = "simply-supported"
  /\ params.loads[loadIndex].type = "point-load"
  /\ RGt(params.loads[loadIndex].position, rightSupportOf(params, params.length))
  /\ REq(out.R1, Zero) /\ REq(out.R2, Zero)

\* C9: calculateReactions returns all-zero reactions for a load whose extent
\* does not meet [leftSupportPosition, rightSupportPosition] (cantilever:
\* [leftSupportPosition, length]), for every beam type.
C9_UnsupportedLoadIgnored ==
  ( /\ op = "calculateReactions"
    /\ LoadOutside(params.loads[loadIndex], leftSupportOf(params),
                   IF params.beamType = "cantilever" THEN params.length
                   ELSE rightSupportOf(params, params.length)) )
  => /\ REq(out.R1, Zero)
     /\ REq(out.R2, Zero)
     /\ REq(MomentOrZero(out.M1), Zero)
     /\ REq(MomentOrZero(out.M2), Zero)

\* C10: on every well-formed beam of any type the deflection at x = 0 is 0.
C10_LeftEndDeflectionZero ==
  ( /\ op = "calculateDeflectionAt"
    /\ WellFormed(params)
    /\ REq(position, Zero) )
  => REq(out, Zero)

C10_Witness ==
  /\ op = "calculateDeflectionAt"
  /\ REq(position, Zero)
  /\ params.beamType = "fixed"
  /\ Len(params.loads) = 2
  /\ params.loads[1].type = "triangular-load"
  /\ params.loads[2].type = "point-load"
  /\ RGt(params.loads[2].position, Zero)
  /\ REq(out, Zero)

\* C11: on every well-formed fixed beam the slope at x = 0 and at x = length
\* is 0, whatever the loads (a point load at position = length included).
C11_FixedEndSlopesZero ==
  ( /\ op = "calculateSlopeAt"
    /\ WellFormed(params)
    /\ params.beamType = "fixed"
    /\ (REq(position, Zero) \/ REq(position, params.length)) )
  => REq(out, Zero)

SamplerGrid(points, length) ==
  /\ Len(points) = 101
  /\ \A i \in 0..100 :
       REq(points[i + 1].x, RDiv(RMul(R(i), length), R(100)))
  /\ \A i \in 1..100 : RLt(points[i].x, points[i + 1].x)
  /\ REq(points[1].x, Zero)
  /\ REq(points[101].x, length)

\* C13: calculateDeflectionPoints and calculateSlopePoints each return 101
\* points at x = i * length / 100 (i = 0..100, increasing, from 0 to length),
\* with y = 1000 * calculateDeflectionAt(params, x) for the deflection points
\* and y = calculateSlopeAt(params, x) * 180 / pi for the slope points.
C13_SamplerShape ==
  op = "performCalculations" =>
    /\ SamplerGrid(out.deflectionPoints, params.length)
    /\ SamplerGrid(out.slopePoints, params.length)
    /\ \A k \in 1..101 :
         /\ REq(out.deflectionPoints[k].y,
                RMul(R(1000),
                     calculateDeflectionAt(params, out.deflectionPoints[k].x)))
         /\ REq(out.slopePoints[k].y,
                RDiv(RMul(calculateSlopeAt(params, out.slopePoints[k].x),
                          R(180)), PI))

C13_Witness ==
  /\ op = "performCalculations"
  /\ params.beamType = "cantilever"
  /\ Len(out.deflectionPoints) = 101
  /\ Len(out.slopePoints) = 101
  /\ RGt(out.deflectionPoints[101].y, Zero)
  /\ RGt(out.slopePoints[101].y, Zero)

\* v at position x is a sample of greatest absolute value among the points
GreatestSample(v, x, points) ==
  /\ \A k \in 1..Len(points) : RLe(RAbs(points[k].y), RAbs(v))
  /\ \E k \in 1..Len(points) :
       REq(points[k].x, x) /\ REq(RAbs(points[k].y), RAbs(v))

\* C14: in the result of performCalculations, deflection.maxValue at
\* deflection.maxPosition is the sample of greatest absolute value among the
\* 101 samples of deflectionPoints (x = i * length / 100), and slope.maxValue
\* at slope.maxPosition is that of slopePoints.
C14_ExtremumOfSamples ==
  op = "performCalculations" =>
    /\ GreatestSample(out.deflection.maxValue, out.deflection.maxPosition,
                      out.deflectionPoints)
    /\ GreatestSample(out.slope.maxValue, out.slope.maxPosition,
                      out.slopePoints)

\* the load is distributed and lies partly inside and partly outside [lo, hi]
PartlyOutside(l, lo, hi) ==
  /\ l.type \in {"uniform-load", "triangular-load"}
  /\ RLt(RMax(l.startPosition, lo), RMin(l.endPosition, hi))
  /\ (RLt(l.startPosition, lo) \/ RGt(l.endPosition, hi))

\* force in N carried by the part of a distributed load inside [lo, hi]:
\* the integral of the intensity over the overlap
OverlapResultant(l, lo, hi) ==
  LET w  == RMul(l.magnitude, R(1000))
      s  == l.startPosition
      os == RMax(l.startPosition, lo)
      oe == RMin(l.endPosition, hi)
  IN  IF l.type = "uniform-load" THEN RMul(w, RSub(oe, os))
      ELSE RDiv(RMul(w, RSub(Sq(RSub(oe, s)), Sq(RSub(os, s)))),
                RMul(R(2), RSub(l.endPosition, s)))

\* moment in N*m of that part about lo: the integral of intensity * (x - lo)
OverlapMoment(l, lo, hi) ==
  LET w  == RMul(l.magnitude, R(1000))
      s  == l.startPosition
      os == RMax(l.startPosition, lo)
      oe == RMin(l.endPosition, hi)
  IN  IF l.type = "uniform-load"
      THEN RMul(RMul(w, RSub(oe, os)),
                RSub(RDiv(RAdd(os, oe), R(2)), lo))
      ELSE RDiv(RMul(w,
                     RAdd(RDiv(RSub(Cube(RSub(oe, s)), Cube(RSub(os, s))), R(3)),
                          RDiv(RMul(RSub(s, lo),
                                    RSub(Sq(RSub(oe, s)), Sq(RSub(os, s)))),
                               R(2)))),
                RSub(l.endPosition, s))

\* C15: on a simply-supported beam, for a uniform or triangular load lying
\* partly outside [leftSupportPosition, rightSupportPosition],
\* calculateReactions uses only the part of the load inside the span:
\* R2 = F * a / span and R1 = F - R2 with F and a the resultant and the
\* centroid distance of the overlapping portion.
C15_PartialOverlap ==
  ( /\ op = "calculateReactions"
    /\ WellFormed(params)
    /\ params.beamType = "simply-supported"
    /\ PartlyOutside(params.loads[loadIndex], leftSupportOf(params),
                     rightSupportOf(params, params.length)) )
  => LET l  == params.loads[loadIndex]
         ls == leftSupportOf(params)
         rs == rightSupportOf(params, params.length)
     IN  /\ REq(RAdd(out.R1, out.R2), OverlapResultant(l, ls, rs))
         /\ REq(RMul(out.R2, RSub(rs, ls)), OverlapMoment(l, ls, rs))

\* position of the resultant of a whole load
Centroid(l) ==
  IF l.type = "point-load" THEN l.position
  ELSE IF l.type = "uniform-load"
    THEN RDiv(RAdd(l.startPosition, l.endPosition), R(2))
  ELSE RSub(l.endPosition, RDiv(RSub(l.endPosition, l.startPosition), R(3)))

\* C16: on a cantilever fixed at leftSupportPosition, for a load lying on
\* [leftSupportPosition, length], calculateReactions returns R1 = F, R2 = 0
\* and M1 = F * (centroid - leftSupportPosition), for point, uniform and
\* triangular loads alike.
C16_CantileverLever ==
  ( /\ op = "calculateReactions"
    /\ WellFormed(params)
    /\ params.beamType = "cantilever"
    /\ LoadWithin(params.loads[loadIndex], leftSupportOf(params),
                  params.length) )
  => LET l == params.loads[loadIndex] IN
     /\ REq(out.R1, Resultant(l))
     /\ REq(out.R2, Zero)
     /\ out.M1 # Undefined
     /\ REq(out.M1, RMul(Resultant(l),
                         RSub(Centroid(l), leftSupportOf(params))))

\* fixed-end moments <<M1, M2>> of a force F at distance a from the left
\* end of a span L: -F*a*b^2/L^2 and F*a^2*b/L^2 with b = L - a
FixedEndMoments(F, a, L) ==
  LET b == RSub(L, a) IN
  <<RNeg(RDiv(Prod(<<F, a, b, b>>), RMul(L, L))),
    RDiv(Prod(<<F, a, a, b>>), RMul(L, L))>>

\* C17: on a fixed beam, for a point load F between the supports,
\* calculateReactions returns M1 = -F*a*b^2/L^2 and M2 = F*a^2*b/L^2 with
\* a = position - leftSupportPosition, b = rightSupportPosition - position
\* and L = rightSupportPosition - leftSupportPosition.
C17_FixedPointMoments ==
  ( /\ op = "calculateReactions"
    /\ WellFormed(params)
    /\ params.beamType = "fixed"
    /\ params.loads[loadIndex].type = "point-load"
    /\ LoadWithin(params.loads[loadIndex], leftSupportOf(params),
                  rightSupportOf(params, params.length)) )
  => LET l  == params.loads[loadIndex]
         ls == leftSupportOf(params)
         rs == rightSupportOf(params, params.length)
         fem == FixedEndMoments(Resultant(l), RSub(l.position, ls),
                                RSub(rs, ls))
     IN  /\ out.M1 # Undefined /\ REq(out.M1, fem[1])
         /\ out.M2 # Undefined /\ REq(out.M2, fem[2])

\* a uniform load that does not cover the whole beam
PartialUniform(l, length) ==
  l.type = "uniform-load" /\ RLt(RSub(l.endPosition, l.startPosition), length)

\* C18: on a fixed beam (supports at 0 and length), for a partial uniform
\* load and for a triangular load, the M1 and M2 returned by
\* calculateReactions are the point-load fixed-end moments
\* -F*a*(L-a)^2/L^2 and F*a^2*(L-a)/L^2 of the load's resultant F placed at
\* its centroid a.
C18_EquivalentPointLoad ==
  ( /\ op = "calculateReactions"
    /\ WellFormed(params)
    /\ params.beamType = "fixed"
    /\ DefaultSupports(params)
    /\ \/ PartialUniform(params.loads[loadIndex], params.length)
       \/ params.loads[loadIndex].type = "triangular-load" )
  => LET l   == params.loads[loadIndex]
         fem == FixedEndMoments(Resultant(l), Centroid(l), params.length)
     IN  /\ out.M1 # Undefined /\ REq(out.M1, fem[1])
         /\ out.M2 # Undefined /\ REq(out.M2, fem[2])

StepTitles ==
  <<"Beam Configuration", "Support Reactions",
    "Deflection Calculation Method", "Slope Calculation">>

\* the formula texts written for one point load
SinglePointLoadTemplates == {deflectionFormula(bt) : bt \in BeamTypes}

\* C19: the generated steps have the same length and titles for every
\* input, and for a load list of two or more loads the formula text is the
\* generic sum-of-contributions template, not the template of a single
\* point load.
C19_StepTemplate ==
  op = "performCalculations" =>
    /\ Len(out.steps) = Len(StepTitles)
    /\ \A k \in 1..Len(StepTitles) : out.steps[k].title = StepTitles[k]
    /\ Len(params.loads) >= 2 =>
         \A k \in 1..Len(out.steps) :
           out.steps[k].formula \notin SinglePointLoadTemplates

\* the value returned by a call is a finite number (for calculateReactions:
\* every reaction that is present is)
FiniteResult ==
  IF op = "calculateReactions"
  THEN /\ Finite(out.R1) /\ Finite(out.R2)
       /\ (out.M1 # Undefined => Finite(out.M1))
       /\ (out.M2 # Undefined => Finite(out.M2))
  ELSE Finite(out)

\* C20: for every well-formed beam and every x in [0, length],
\* calculateReactions, calculateBendingMoment, calculateShearForce,
\* calculateDeflectionAt and calculateSlopeAt return finite numbers (no
\* division by zero), also when loads lie fully or partly outside the
\* support span.
C20_Totality ==
  ( /\ op \in {"calculateReactions", "calculateBendingMoment",
               "calculateShearForce", "calculateDeflectionAt",
               "calculateSlopeAt"}
    /\ WellFormed(params) )
  => FiniteResult

C20_Witness ==
  /\ op = "calculateSlopeAt"
  /\ WellFormed(params)
  /\ params.beamType = "simply-supported"
  /\ Len(params.loads) = 2
  /\ PartlyOutside(params.loads[1], leftSupportOf(params),
                   rightSupportOf(params, params.length))
  /\ params.loads[1].type = "triangular-load"
  /\ LoadOutside(params.loads[2], leftSupportOf(params),
                 rightSupportOf(params, params.length))
  /\ Finite(out)
  /\ ~REq(out, Zero)

----------------------------------------------------------------------------
\* the force in N of the part of a load that lies to the right of x; a
\* triangular load rises from 0 at startPosition to magnitude at endPosition
ForceRightOf(l, x) ==
  LET F == RMul(l.magnitude, R(1000)) IN
  IF l.type = "point-load"
    THEN IF RLe(x, l.position) THEN F ELSE Zero
  ELSE IF RGe(x, l.endPosition) THEN Zero
  ELSE IF l.type = "uniform-load"
    THEN RMul(F, RSub(l.endPosition, RMax(x, l.startPosition)))
  ELSE IF RLe(x, l.startPosition)
    THEN RDiv(RMul(F, RSub(l.endPosition, l.startPosition)), R(2))
  ELSE RDiv(Prod(<<F, RSub(l.endPosition, x),
                   RSub(RAdd(l.endPosition, x),
                        RMul(R(2), l.startPosition))>>),
            RMul(R(2), RSub(l.endPosition, l.startPosition)))

\* the moment about x in N*m of the part of a load to the right of x
MomentRightOf(l, x) ==
  LET F == RMul(l.magnitude, R(1000)) IN
  IF l.type = "point-load"
    THEN IF RLe(x, l.position) THEN RMul(F, RSub(l.position, x)) ELSE Zero
  ELSE IF RGe(x, l.endPosition) THEN Zero
  ELSE IF l.type = "uniform-load"
    THEN LET lo == RMax(x, l.startPosition) IN
         Prod(<<F, RSub(l.endPosition, lo),
                RSub(RDiv(RAdd(l.endPosition, lo), R(2)), x)>>)
  ELSE LET W == RSub(l.endPosition, l.startPosition)
           a == RSub(RMax(x, l.startPosition), l.startPosition)
           \* integral of (F*u/W) * (u - (x - start)) for u from a to W
           shift == RSub(x, l.startPosition)
       IN  RMul(RDiv(F, W),
                RAdd(RSub(RDiv(Cube(W), R(3)), RDiv(Cube(a), R(3))),
                     RNeg(RMul(shift,
                               RSub(RDiv(Sq(W), R(2)), RDiv(Sq(a), R(2)))))))

RECURSIVE ForceRightSum(_, _, _)
ForceRightSum(loads, x, i) ==
  IF i > Len(loads) THEN Zero
  ELSE RAdd(ForceRightOf(loads[i], x), ForceRightSum(loads, x, i + 1))

RECURSIVE MomentRightSum(_, _, _)
MomentRightSum(loads, x, i) ==
  IF i > Len(loads) THEN Zero
  ELSE RAdd(MomentRightOf(loads[i], x), MomentRightSum(loads, x, i + 1))

\* C22: on a cantilever fixed at 0, for every x in [0, length],
\* calculateShearForce(params, x) is the total force of the parts of the
\* loads to the right of x and calculateBendingMoment(params, x) is the
\* moment of those parts about x, for point, uniform and triangular loads.
C22_CantileverLoadsToTheRight ==
  ( /\ WellFormed(params)
    /\ params.beamType = "cantilever"
    /\ params.leftSupportPosition = Undefined )
  => /\ op = "calculateShearForce"
          => REq(out, ForceRightSum(params.loads, position, 1))
     /\ op = "calculateBendingMoment"
          => REq(out, MomentRightSum(params.loads, position, 1))

\* C23: on a cantilever with a single partial uniform or triangular load that
\* ends before the free end, calculateDeflectionAt and calculateSlopeAt
\* return at every x in [endPosition, length] the value they return at
\* endPosition.
C23_CantileverSaturation ==
  ( /\ op \in {"calculateDeflectionAt", "calculateSlopeAt"}
    /\ WellFormed(params)
    /\ params.beamType = "cantilever"
    /\ Len(params.loads) = 1
    /\ params.loads[1].type \in {"uniform-load", "triangular-load"}
    /\ RLt(params.loads[1].endPosition, params.length)
    /\ RGe(position, params.loads[1].endPosition) )
  => IF op = "calculateDeflectionAt"
     THEN REq(out, calculateDeflectionAt(params, params.loads[1].endPosition))
     ELSE REq(out, calculateSlopeAt(params, params.loads[1].endPosition))

\* C24: calculateBendingMoment and calculateShearForce called with the
\* user's parameters on a simply-supported or fixed beam use the R1 of
\* calculateTotalReactions(params), in N: calculateShearForce(params, 0) is
\* that R1 and, on a simply-supported beam with default supports,
\* calculateBendingMoment(params, 0) and calculateBendingMoment(params,
\* length) are 0.
C24_UnitsConvertedOnce ==
  ( /\ WellFormed(params)
    /\ params.beamType \in {"simply-supported", "fixed"} )
  => /\ (op = "calculateShearForce" /\ REq(position, Zero))
          => REq(out, calculateTotalReactions(params).R1)
     /\ ( /\ op = "calculateBendingMoment"
          /\ params.beamType = "simply-supported"
          /\ params.leftSupportPosition = Undefined
          /\ REq(position, Zero) \/ REq(position, params.length) )
          => REq(out, Zero)

\* the x > a branch of calculateDeflectionAt for the single point load of p,
\* evaluated at x
PointBranchBeyond(p, x) ==
  LET cp   == convertToCalculationUnits(p)
      EI   == RMul(cp.elasticModulus, cp.momentOfInertia)
      load == cp.loads[1]
  IN  IF p.beamType = "simply-supported"
        THEN DeflectionSimplySupportedPointBeyond(load, x, cp.length, EI)
      ELSE IF p.beamType = "cantilever"
        THEN DeflectionCantileverPointBeyond(load, x, EI)
      ELSE DeflectionFixedPointBeyond(load, x, cp.length, EI)

\* C25: for a single point load at a with 0 < a < length, on each beam type,
\* the value of calculateDeflectionAt at x = a (the x <= a branch) is the
\* value that the x > a branch gives at x = a.
C25_ContinuousAtLoad ==
  ( /\ op = "calculateDeflectionAt"
    /\ WellFormed(params)
    /\ Len(params.loads) = 1
    /\ params.loads[1].type = "point-load"
    /\ RLt(Zero, params.loads[1].position)
    /\ RLt(params.loads[1].position, params.length)
    /\ REq(position, params.loads[1].position) )
  => REq(out, PointBranchBeyond(params, position))

\* C26: in the result of performCalculations, the maximum deflection that
\* the steps state ("... mm at midspan") is deflection.maxValue, found at
\* deflection.maxPosition, and the maximum slope that they state ("... at
\* support") is slope.maxValue, found at slope.maxPosition.
C26_NarrativeAgreesWithSummary ==
  op = "performCalculations" =>
    /\ out.steps[3].result[2] = ToFixed[<<out.deflection.maxValue, 3>>]
    /\ REq(out.deflection.maxPosition, RDiv(params.length, R(2)))
    /\ out.steps[4].result[2] = ToFixed[<<RAbs(out.slope.maxValue), 4>>]
    /\ \/ REq(out.slope.maxPosition, Zero)
       \/ REq(out.slope.maxPosition, params.length)

----------------------------------------------------------------------------
(* The calculator form (src/components/BeamCalculator.tsx): handlers.       *)
(* The inputs, the Calculate and the Reset button are rendered inside the   *)
(* "parameters" tab, the Modify Parameters button inside the "results" tab. *)

MaxEdits == 3

\* what is typed into a number input; "" is an input that holds no number
InputTexts == {"-1", "0", "1", ""}

parseFloat(text) ==
  CASE text = "-1" -> R(-1)
    [] text = "0"  -> Zero
    [] text = "1"  -> R(1)
    [] OTHER       -> NaN

\* `parseFloat(value) || 0`
ParsedValue(text) == OrElse(parseFloat(text), Zero)

\* The results of a calculation are a function of the parameters alone; they
\* are represented by the parameters they were calculated from.
calculateResults(p) == [of |-> p]

\* crypto.randomUUID(): an id that no load in `parameters` or in `results`
\* carries
UsedIds ==
  {parameters.loads[i].id : i \in 1..Len(parameters.loads)}
  \cup (IF results = Null THEN {}
        ELSE {results.of.loads[i].id : i \in 1..Len(results.of.loads)})

FreshId ==
  CHOOSE n \in 1..(2 * MaxLoads + 1) :
    n \notin UsedIds /\ \A m \in 1..(n - 1) : m \in UsedIds

LoadIds == {parameters.loads[i].id : i \in 1..Len(parameters.loads)}

handleInputChange ==
  \E name \in {"length", "elasticModulus", "momentOfInertia"},
     value \in InputTexts :
    /\ activeTab = "parameters"
    /\ edits < MaxEdits
    /\ parameters' = [parameters EXCEPT ![name] = ParsedValue(value)]
    /\ edits' = edits + 1
    /\ toast' = "none"
    /\ UNCHANGED <<results, activeTab>>
    /\ UNCHANGED engine

handleSelectChange ==
  \E value \in BeamTypes \ {parameters.beamType} :
    /\ activeTab = "parameters"
    /\ edits < MaxEdits
    /\ parameters' = [parameters EXCEPT !.beamType = value]
    /\ edits' = edits + 1
    /\ toast' = "none"
    /\ UNCHANGED <<results, activeTab>>
    /\ UNCHANGED engine

\* the fields of a load that the form shows an input for
LoadFields(load) ==
  IF load.type = "point-load" THEN {"magnitude", "position"}
  ELSE {"magnitude", "startPosition", "endPosition"}

\* a load after its type select has been set to `value`
LoadOfType(load, value, length) ==
  IF value = "point-load"
    THEN PointLoad(load.id, load.magnitude, RDiv(length, R(2)))
  ELSE IF value = "uniform-load"
    THEN UniformLoad(load.id, load.magnitude, Zero, length)
  ELSE [load EXCEPT !.type = Zero]

handleLoadChangeType ==
  \E id \in LoadIds, value \in {"point-load", "uniform-load"} :
    /\ activeTab = "parameters"
    /\ edits < MaxEdits
    /\ \E i \in 1..Len(parameters.loads) :
         parameters.loads[i].id = id /\ parameters.loads[i].type # value
    /\ parameters' =
         [parameters EXCEPT !.loads =
            [i \in 1..Len(parameters.loads) |->
               IF parameters.loads[i].id = id
               THEN LoadOfType(parameters.loads[i], value, parameters.length)
               ELSE parameters.loads[i]]]
    /\ edits' = edits + 1
    /\ toast' = "none"
    /\ UNCHANGED <<results, activeTab>>
    /\ UNCHANGED engine

handleLoadChange ==
  \E id \in LoadIds, value \in InputTexts,
     field \in {"magnitude", "position", "startPosition", "endPosition"} :
    /\ activeTab = "parameters"
    /\ edits < MaxEdits
    /\ \E i \in 1..Len(parameters.loads) :
         parameters.loads[i].id = id /\ field \in LoadFields(parameters.loads[i])
    /\ parameters' =
         [parameters EXCEPT !.loads =
            [i \in 1..Len(parameters.loads) |->
               IF parameters.loads[i].id = id
               THEN [parameters.loads[i] EXCEPT ![field] = ParsedValue(value)]
               ELSE parameters.loads[i]]]
    /\ edits' = edits + 1
    /\ toast' = "none"
    /\ UNCHANGED <<results, activeTab>>
    /\ UNCHANGED engine

addLoad ==
  /\ activeTab = "parameters"
  /\ edits < MaxEdits
  /\ Len(parameters.loads) < MaxLoads
  /\ parameters' =
       [parameters EXCEPT !.loads =
          Append(parameters.loads,
                 PointLoad(FreshId, R(DefaultMagnitude),
                           RDiv(parameters.length, R(2))))]
  /\ edits' = edits + 1
  /\ toast' = "none"
  /\ UNCHANGED <<results, activeTab>>
  /\ UNCHANGED engine

\* mutant: the guard lets the last load go
OnlyOneLoadLeft_OffByOne(loads) == Len(loads) < 1

\* `parameters.loads.length <= 1`
OnlyOneLoadLeft(loads) == Len(loads) <= 1

removeLoad ==
  \E id \in LoadIds :
    /\ activeTab = "parameters"
    /\ IF OnlyOneLoadLeft(parameters.loads)
       THEN /\ toast' = "error: At least one load is required"
            /\ UNCHANGED <<parameters, edits>>
       ELSE /\ edits < MaxEdits
            /\ parameters' =
                 [parameters EXCEPT !.loads =
                    SelectSeq(parameters.loads, LAMBDA load : load.id # id)]
            /\ edits' = edits + 1
            /\ toast' = "none"
    /\ UNCHANGED <<results, activeTab>>
    /\ UNCHANGED engine

\* the checks of handleCalculate on one load: the toast it raises, or "none"
LoadCheck(load, length) ==
  IF /\ load.type = "point-load"
     /\ \/ load.position = Undefined
        \/ RLt(load.position, Zero)
        \/ RGt(load.position, length)
    THEN "error: Load position must be between 0 and length"
  ELSE IF /\ load.type = "uniform-load"
          /\ LET start == OrElse(load.startPosition, Zero)
                 end   == OrElse(load.endPosition, length)
             IN  RLt(start, Zero) \/ RGt(end, length) \/ RGe(start, end)
    THEN "error: Load range must be valid and within beam length"
  ELSE "none"

\* the loop over the loads returns at the first load that fails
RECURSIVE ValidationFrom(_, _)
ValidationFrom(p, i) ==
  IF i > Len(p.loads) THEN "none"
  ELSE IF LoadCheck(p.loads[i], p.length) # "none"
    THEN LoadCheck(p.loads[i], p.length)
  ELSE ValidationFrom(p, i + 1)

handleCalculate ==
  /\ activeTab = "parameters"
  /\ IF ValidationFrom(parameters, 1) # "none"
     THEN /\ toast' = ValidationFrom(parameters, 1)
          /\ UNCHANGED <<results, activeTab>>
     ELSE /\ results' = calculateResults(parameters)
          /\ activeTab' = "results"
          /\ toast' = "success: Calculations completed successfully!"
  /\ UNCHANGED <<parameters, edits>>
  /\ UNCHANGED engine

handleReset ==
  /\ activeTab = "parameters"
  /\ parameters' = InitialParameters
  /\ results' = Null
  /\ activeTab' = "parameters"
  /\ toast' = "info: Calculator reset to default values"
  /\ edits' = 0
  /\ UNCHANGED engine

\* <Tabs onValueChange={setActiveTab}>; the trigger of the results tab is
\* disabled while `results` is null
\* mutant: the trigger of the results tab is never disabled
ResultsTabDisabled_Never(r) == FALSE

\* `disabled={!results}`
ResultsTabDisabled(r) == r = Null

setActiveTab ==
  \E value \in {"parameters", "results"} \ {activeTab} :
    /\ value = "results" => ~ResultsTabDisabled(results)
    /\ activeTab' = value
    /\ toast' = "none"
    /\ UNCHANGED <<parameters, results, edits>>
    /\ UNCHANGED engine

\* the Modify Parameters button of the results tab
ModifyParameters ==
  /\ activeTab = "results"
  /\ results # Null
  /\ activeTab' = "parameters"
  /\ toast' = "none"
  /\ UNCHANGED <<parameters, results, edits>>
  /\ UNCHANGED engine

InitCalculator ==
  /\ InitUI
  /\ params = DefaultBeam
  /\ op = "none"
  /\ position = Zero
  /\ loadIndex = 0
  /\ out = Undefined

NextCalculator ==
  \/ handleInputChange
  \/ handleSelectChange
  \/ handleLoadChangeType
  \/ handleLoadChange
  \/ addLoad
  \/ removeLoad
  \/ handleCalculate
  \/ handleReset
  \/ setActiveTab
  \/ ModifyParameters

SpecCalculator == InitCalculator /\ [][NextCalculator]_vars

----------------------------------------------------------------------------
\* the toast that handleCalculate raises when it has stored the results
Success == "success: Calculations completed successfully!"

\* C21: handleCalculate runs the calculation and stores its results only
\* when length, elasticModulus and momentOfInertia and every load magnitude
\* are positive.
C21_PositiveInputsOnly ==
  toast = Success =>
    /\ RGt(parameters.length, Zero)
    /\ RGt(parameters.elasticModulus, Zero)
    /\ RGt(parameters.momentOfInertia, Zero)
    /\ \A i \in 1..Len(parameters.loads) :
         RGt(parameters.loads[i].magnitude, Zero)

\* C27: handleCalculate stores results and opens the results tab only if
\* every point load has 0 <= position <= length and every distributed load
\* has 0 <= startPosition < endPosition <= length.
C27_LoadsWithinBeam ==
  toast = Success =>
    \A i \in 1..Len(parameters.loads) :
      LET load == parameters.loads[i] IN
      IF load.type = "point-load"
      THEN /\ RLe(Zero, load.position)
           /\ RLe(load.position, parameters.length)
      ELSE /\ RLe(Zero, load.startPosition)
           /\ RLt(load.startPosition, load.endPosition)
           /\ RLe(load.endPosition, parameters.length)

\* the loads of a list without the one that carries `id`, in their order
RECURSIVE Without(_, _, _)
Without(loads, id, i) ==
  IF i > Len(loads) THEN <<>>
  ELSE IF loads[i].id = id THEN Without(loads, id, i + 1)
  ELSE <<loads[i]>> \o Without(loads, id, i + 1)

C29_ResultsTabHasResults ==
  /\ activeTab = "results" => results # Null
  /\ toast = "info: Calculator reset to default values"
       => results = Null /\ activeTab = "parameters"

\* the results tab opened from the tab list, after a look at the parameters
C29_Witness ==
  /\ activeTab = "results"
  /\ toast = "none"
  /\ results # Null

\* C30: whenever the results tab is active, the stored results are those of
\* the current parameters.
C30_ResultsNeverStale ==
  activeTab = "results" => results = calculateResults(parameters)

====
